---- MODULE Spec2Model ----
(***************************************************************************)
(* DocTranslate: the round-trip tagging and layered-protection pipeline.   *)
(*                                                                         *)
(* A text is a sequence of one-character strings, so that the regular      *)
(* expressions and the literal replacements of the Python source act on    *)
(* characters exactly as they do there.                                    *)
(*                                                                         *)
(*   Spec          DocumentTranslator._translate_paragraph, step by step   *)
(*   SpecGlossary  GlossaryEngine.protect_text / restore_text              *)
(*   SpecCleanup   GlossaryEngine.fix_concatenation_errors                 *)
(*   SpecRoundTrip TagFormatter.paragraph_to_tagged_text/tags_to_paragraph *)
(***************************************************************************)
EXTENDS Naturals, Sequences, FiniteSets, TLC

VARIABLES
    pc,                 \* position in the operation being run
    category,           \* glossary category of the call
    para,               \* the paragraph: its runs, in document order
    para0,              \* the paragraph's runs when the call started
    tagged_text,        \* translator.py:109
    run_styles,         \* translator.py:109
    hyperlinks,         \* translator.py:109
    protected_text,     \* translator.py:120
    tag_placeholders,   \* translator.py:127, an insertion-ordered dict
    masked_text,        \* translator.py:138
    term_placeholders,  \* translator.py:138, an insertion-ordered dict
    translated_masked,  \* translator.py:142
    translated,         \* translator.py:152
    ret,                \* value returned by _translate_paragraph
    engine,             \* what the translation service did with this call
    hist,               \* values the text went through, oldest first
    doc,                \* the document: its body paragraphs and its table cells
    pos,                \* index of the paragraph or cell a pass has come to
    counts,             \* the counts the passes of translate returned
    output,             \* what translate handed to its caller
    glossary            \* the rows of table glossary in the database file

vars == <<pc, category, para, para0, tagged_text, run_styles, hyperlinks,
          protected_text, tag_placeholders, masked_text, term_placeholders,
          translated_masked, translated, ret, engine, hist, doc, pos, counts,
          output, glossary>>

\* the state of a run of DocumentTranslator.translate, and the table its
\* DatabaseManager is opened on
docvars == <<doc, pos, counts, output, glossary>>

\* the table is not written: its rows are those of GlossaryRows
NoStore == glossary = "fixed"

\* no document is being translated
NoDocument ==
    /\ doc = [paragraphs |-> <<>>, cells |-> <<>>]
    /\ pos = 0
    /\ counts = <<>>
    /\ output = "none"
    /\ NoStore

(***************************************************************************)
(* Characters and the character classes of Python's re module.             *)
(***************************************************************************)
Uppers == <<"A","B","C","D","E","F","G","H","I","J","K","L","M",
            "N","O","P","Q","R","S","T","U","V","W","X","Y","Z">>
Lowers == <<"a","b","c","d","e","f","g","h","i","j","k","l","m",
            "n","o","p","q","r","s","t","u","v","w","x","y","z">>
Digits == <<"0","1","2","3","4","5","6","7","8","9">>

IsUpper(c) == \E i \in 1..26 : Uppers[i] = c
IsLower(c) == \E i \in 1..26 : Lowers[i] = c
IsDigit(c) == \E i \in 1..10 : Digits[i] = c
\* the letters outside ASCII that the texts use, by name
OtherLetters == {"ccedil", "ouml", "scedil"}
\* \w
IsWord(c) == IsUpper(c) \/ IsLower(c) \/ IsDigit(c) \/ c = "_" \/ c \in OtherLetters
\* \s, and the characters str.strip() removes
IsSpace(c) == c \in {" ", "\t", "\n"}

\* str.lower() of one character; re.IGNORECASE compares characters this way
LowerChar(c) ==
    IF IsUpper(c) THEN Lowers[CHOOSE i \in 1..26 : Uppers[i] = c] ELSE c

LowerStr(s) == [i \in 1..Len(s) |-> LowerChar(s[i])]

\* str(n) for n >= 0
RECURSIVE Str(_)
Str(n) == IF n < 10 THEN <<Digits[n + 1]>>
          ELSE Str(n \div 10) \o <<Digits[(n % 10) + 1]>>

DigitVal(c) == (CHOOSE i \in 1..10 : Digits[i] = c) - 1

\* int(s) for a text of digits
RECURSIVE Int(_)
Int(s) == IF Len(s) = 0 THEN 0
          ELSE 10 * Int(SubSeq(s, 1, Len(s) - 1)) + DigitVal(s[Len(s)])

\* ' ' * n
Spaces(n) == [i \in 1..n |-> " "]

(***************************************************************************)
(* str methods.                                                            *)
(***************************************************************************)
\* p occurs in s at index i (1-based)
MatchAt(s, i, p) ==
    /\ i >= 1
    /\ i + Len(p) - 1 <= Len(s)
    /\ \A k \in 1..Len(p) : s[i + k - 1] = p[k]

\* p in s
Contains(s, p) == \E i \in 1..(Len(s) + 1) : MatchAt(s, i, p)

\* the least index of a non-empty set of indices
Least(S) == CHOOSE j \in S : \A m \in S : j <= m

\* where a scan finds its next match: the least of the indices S where the
\* pattern matches, 0 if there is none
First(S) == IF S = {} THEN 0 ELSE Least(S)

\* s[i:]
From(s, i) == SubSeq(s, i, Len(s))

\* s.replace(old, new), old non-empty: leftmost, non-overlapping, all
RECURSIVE ReplaceFrom(_, _, _, _)
ReplaceFrom(s, i, old, new) ==
    LET j == First({m \in i..Len(s) : MatchAt(s, m, old)})
    IN  IF j = 0 THEN From(s, i)
        ELSE SubSeq(s, i, j - 1) \o new \o ReplaceFrom(s, j + Len(old), old, new)

Replace(s, old, new) == ReplaceFrom(s, 1, old, new)

\* the key of keys that starts at index i of s, or <<>>; every placeholder
\* key opens with "["
KeyAt(s, i, keys) ==
    IF i >= 1 /\ i <= Len(s) /\ s[i] = "["
       /\ \E k \in 1..Len(keys) : MatchAt(s, i, keys[k])
    THEN keys[CHOOSE k \in 1..Len(keys) : MatchAt(s, i, keys[k])]
    ELSE <<>>

\* s.strip()
RECURSIVE LStrip(_)
LStrip(s) == IF Len(s) > 0 /\ IsSpace(s[1]) THEN LStrip(Tail(s)) ELSE s
RECURSIVE RStrip(_)
RStrip(s) == IF Len(s) > 0 /\ IsSpace(s[Len(s)])
             THEN RStrip(SubSeq(s, 1, Len(s) - 1)) ELSE s
Strip(s) == RStrip(LStrip(s))

\* s.endswith(p)
EndsWith(s, p) == Len(p) <= Len(s) /\ MatchAt(s, Len(s) - Len(p) + 1, p)

\* concatenation of a sequence of texts
RECURSIVE Concat(_)
Concat(ss) == IF Len(ss) = 0 THEN <<>> ELSE Head(ss) \o Concat(Tail(ss))

\* all sequences over S of length at most n
SeqUpTo(S, n) == UNION {[1..k -> S] : k \in 0..n}

(***************************************************************************)
(* GlossaryEngine.fix_concatenation_errors (glossary.py:66-90).            *)
(***************************************************************************)
\* glossary.py:69-81, in the dict's insertion order
corrections == <<
    <<(<<"M","o","r","e","l","o","w">>), (<<"L","o","w","e","r">>)>>,
    <<(<<"M","o","r","e","f","a","s","t">>), (<<"F","a","s","t","e","r">>)>>,
    <<(<<"M","o","r","e","l","i","t","t","l","e">>), (<<"L","e","s","s">>)>>,
    <<(<<"D","r","i","n","k"," ","d","a","t","a">>),
      (<<"I","n","t","e","r","n","a","l"," ","d","a","t","a">>)>>,
    <<(<<"L","i","n","k","e","d","o","f">>), (<<"L","i","n","k","e","d","I","n">>)>>,
    <<(<<"l","i","n","k","e","d","o","f">>), (<<"L","i","n","k","e","d","I","n">>)>>,
    <<(<<"D","e","z","A","d","v","a","n","t","a","g","e","s">>),
      (<<"D","i","s","a","d","v","a","n","t","a","g","e","s">>)>>,
    <<(<<"D","e","z","a","d","v","a","n","t","a","g","e","s">>),
      (<<"D","i","s","a","d","v","a","n","t","a","g","e","s">>)>>,
    <<(<<"R","e","t","A","I","l">>), (<<"R","e","t","a","i","l">>)>>,
    <<(<<"W","h","e","n","u","s","e","d">>), (<<"W","h","e","n"," ","u","s","e","d">>)>>,
    <<(<<"p","r","o","d","u","c","t","i","v","i","t","y",
         "i","n","c","r","e","a","s","e">>),
      (<<"p","r","o","d","u","c","t","i","v","i","t","y"," ",
         "i","n","c","r","e","a","s","e">>)>> >>

\* glossary.py:83-84: for wrong, correct in corrections.items(): text.replace
RECURSIVE ApplyCorrections(_, _)
ApplyCorrections(text, k) ==
    IF k > Len(corrections) THEN text
    ELSE ApplyCorrections(Replace(text, corrections[k][1], corrections[k][2]), k + 1)

\* the length of the match of r'([a-z])([A-Z])' at i, 0 if none
CamelLenAt(s, i) ==
    IF i < Len(s) /\ IsLower(s[i]) /\ IsUpper(s[i + 1]) THEN 2 ELSE 0

\* the same substitution, abandoned after its first match (count=1)
SplitCamelFirstOnly(s, i) ==
    LET j == First({m \in i..Len(s) : CamelLenAt(s, m) > 0})
    IN  IF j = 0 THEN From(s, i)
        ELSE SubSeq(s, i, j) \o <<" ">> \o From(s, j + 1)

\* glossary.py:88: re.sub(r'([a-z])([A-Z])', r'\1 \2', text)
RECURSIVE SplitCamel(_, _)
SplitCamel(s, i) ==
    LET j == First({m \in i..Len(s) : CamelLenAt(s, m) > 0})
    IN  IF j = 0 THEN From(s, i)
        ELSE SubSeq(s, i, j) \o <<" ", s[j + 1]>> \o SplitCamel(s, j + 2)

fix_concatenation_errors(text) == SplitCamel(ApplyCorrections(text, 1), 1)

(***************************************************************************)
(* The glossary table (database.py) and GlossaryEngine (glossary.py).      *)
(***************************************************************************)
Orta == <<"O","r","t","a">>
Medium == <<"M","e","d","i","u","m">>
Ay == <<"a","y">>
Month == <<"m","o","n","t","h">>
ERP == <<"E","R","P">>
Sistemi == <<"S","i","s","t","e","m","i">>
ErpSistemi == ERP \o <<" ">> \o Sistemi
ErpSystem == ERP \o <<" ">> \o <<"S","y","s","t","e","m">>
Scheme == <<"S","c","h","e","m","e">>
Word == <<"W","o","r","d">>

Row(src, trg, type) == [term_source |-> src, term_target |-> trg, type |-> type]

\* The rows of table glossary by category, in rowid order.  "general" and
\* "Technology" hold rows of the seed set (database.py:55-114); the other
\* categories hold rows a user added with add_term (database.py:122).
Categories == {"general", "Technology", "erp", "nested", "mixed"}

GlossaryRows(cat) ==
    CASE cat = "general" ->
           << Row(Orta, Medium, "forced"), Row(Ay, Month, "forced") >>
      [] cat = "Technology" ->
           << Row(ERP, ERP, "protected"), Row(Word, Word, "protected") >>
      [] cat = "erp" ->
           << Row(ERP, ERP, "protected"), Row(ErpSistemi, ErpSystem, "forced") >>
      [] cat = "nested" ->
           << Row(Sistemi, Scheme, "forced"), Row(ErpSistemi, ErpSystem, "forced") >>
      [] cat = "mixed" ->
           << Row(Sistemi, Scheme, "forced"), Row(ErpSistemi, ErpSistemi, "protected") >>
      [] OTHER -> << >>

\* database.py:151-167: (protected, forced), each in row order
RECURSIVE SelectRows(_, _)
SelectRows(rows, type) ==
    IF Len(rows) = 0 THEN <<>>
    ELSE IF Head(rows).type = type
         THEN <<Head(rows)>> \o SelectRows(Tail(rows), type)
    ELSE SelectRows(Tail(rows), type)

get_glossary_dict(cat) ==
    [protected |-> SelectRows(GlossaryRows(cat), "protected"),
     forced    |-> SelectRows(GlossaryRows(cat), "forced")]

\* sorted(rows, key=len(source), reverse=True): stable, so rows of equal
\* length keep their order
RECURSIVE InsertByLen(_, _)
InsertByLen(sorted, row) ==
    IF Len(sorted) = 0 THEN <<row>>
    ELSE IF Len(Head(sorted).term_source) >= Len(row.term_source)
         THEN <<Head(sorted)>> \o InsertByLen(Tail(sorted), row)
    ELSE <<row>> \o sorted

\* the rows left in table order
RowOrder(rows) == rows

RECURSIVE SortedByLen(_)
SortedByLen(rows) ==
    IF Len(rows) = 0 THEN <<>>
    ELSE InsertByLen(SortedByLen(SubSeq(rows, 1, Len(rows) - 1)), rows[Len(rows)])

\* \b at index i of s: between s[i-1] and s[i]
IsWordAt(s, i) == i >= 1 /\ i <= Len(s) /\ IsWord(s[i])
WordBoundary(s, i) == IsWordAt(s, i - 1) # IsWordAt(s, i)

\* the term matched without the closing \b
TermMatchNoEndBoundary(s, i, term) ==
    /\ i + Len(term) - 1 <= Len(s)
    /\ \A k \in 1..Len(term) : LowerChar(s[i + k - 1]) = LowerChar(term[k])
    /\ WordBoundary(s, i)

\* glossary.py:35,45: r'\b' + re.escape(term) + r'\b', re.IGNORECASE, at index i
TermMatchAt(s, i, term) ==
    /\ i + Len(term) - 1 <= Len(s)
    /\ \A k \in 1..Len(term) : LowerChar(s[i + k - 1]) = LowerChar(term[k])
    /\ WordBoundary(s, i)
    /\ WordBoundary(s, i + Len(term))

\* pattern.search(text)
TermSearch(s, term) == \E i \in 1..Len(s) : TermMatchAt(s, i, term)

\* pattern.sub(key, text)
RECURSIVE TermSubFrom(_, _, _, _)
TermSubFrom(s, i, term, key) ==
    LET j == First({m \in i..Len(s) : TermMatchAt(s, m, term)})
    IN  IF j = 0 THEN From(s, i)
        ELSE SubSeq(s, i, j - 1) \o key \o TermSubFrom(s, j + Len(term), term, key)

TermSub(s, term, key) == TermSubFrom(s, 1, term, key)

\* f"[_F{n}_]" and f"[_P{n}_]"
ForcedKey(n) == <<"[","_","F">> \o Str(n) \o <<"_","]">>
ProtectedKey(n) == <<"[","_","P">> \o Str(n) \o <<"_","]">>

\* the entry stored under the row's source instead of its target
PlaceholderValueSource(r) == r.term_source

\* glossary.py:39 placeholders[key] = en_phrase; glossary.py:49 = term
PlaceholderValue(r) ==
    IF r.type = "forced" THEN r.term_target ELSE r.term_source

\* One pass of the loops of glossary.py:31-40 and 43-50 over rows, from the
\* state st = [text, placeholders]; placeholders is a sequence of <<key, value>>.
RECURSIVE MaskRows(_, _)
MaskRows(rows, st) ==
    IF Len(rows) = 0 THEN st
    ELSE LET r == Head(rows)
             n == Len(st.placeholders)
             key == IF r.type = "forced" THEN ForcedKey(n) ELSE ProtectedKey(n)
             val == PlaceholderValue(r)
         IN  IF TermSearch(st.text, r.term_source)
             THEN MaskRows(Tail(rows),
                     [text |-> TermSub(st.text, r.term_source, key),
                      placeholders |-> Append(st.placeholders, <<key, val>>)])
             ELSE MaskRows(Tail(rows), st)

\* glossary.py:16-52
protect_text(text, cat) ==
    LET g == get_glossary_dict(cat)
        afterForced == MaskRows(SortedByLen(g.forced),
                                [text |-> text, placeholders |-> <<>>])
    IN  MaskRows(SortedByLen(g.protected), afterForced)

\* glossary.py:61: key.replace("[", "[ ").replace("]", " ]")
KeySpaced(key) == Replace(Replace(key, <<"[">>, <<"[", " ">>), <<"]">>, <<" ", "]">>)

\* the loop left after its first entry
restore_text_first_only(text, placeholders) ==
    IF Len(placeholders) = 0 THEN text
    ELSE LET key == Head(placeholders)[1]
             value == Head(placeholders)[2]
         IN  Replace(Replace(text, key, value), KeySpaced(key), value)

\* glossary.py:54-64
RECURSIVE restore_text(_, _)
restore_text(text, placeholders) ==
    IF Len(placeholders) = 0 THEN text
    ELSE LET key == Head(placeholders)[1]
             value == Head(placeholders)[2]
             exact == Replace(text, key, value)
         IN  restore_text(Replace(exact, KeySpaced(key), value), Tail(placeholders))

(***************************************************************************)
(* TagFormatter (formatters.py).  A run is a record of its text, the style *)
(* fields paragraph_to_tagged_text captures, and the target of the         *)
(* hyperlink container it sits in ("None": not in a link).  "None" is      *)
(* Python's None; "True" and "False" are the booleans; every other field  *)
(* value is named by a string.                                             *)
(***************************************************************************)
None == "None"

\* bool(x) for the values a style field holds
Truthy(x) == x \notin {None, "False", ""}

Run(text, bold, italic, underline, color, color_type, size, name, highlight_color, shading, style_id, link) ==
    [text |-> text, bold |-> bold, italic |-> italic, underline |-> underline,
     color |-> color, color_type |-> color_type, size |-> size, name |-> name,
     highlight_color |-> highlight_color, shading |-> shading,
     style_id |-> style_id, link |-> link]

\* a run python-docx has just created: no property set
NewRun(text, link) ==
    Run(text, None, None, None, None, None, None, None, None, None, None, link)

\* formatters.py:58-69, 78, 85, 91: the style captured from a run
StyleOf(run) ==
    [bold |-> run.bold, italic |-> run.italic, underline |-> run.underline,
     color |-> run.color, color_type |-> run.color_type, size |-> run.size,
     name |-> run.name, highlight_color |-> run.highlight_color,
     shading |-> run.shading, style_id |-> run.style_id]

\* str(RGBColor(0xFF, 0x00, 0x00))
RgbStr(color) ==
    CASE color = "FF0000" -> <<"F","F","0","0","0","0">>
      [] OTHER            -> <<"0","0","0","0","0","0">>

\* str(WD_COLOR_INDEX.YELLOW) and str(MSO_COLOR_TYPE.AUTO)
EnumStr(x) ==
    CASE x = "YELLOW" -> <<"Y","E","L","L","O","W"," ","(","7",")">>
      [] x = "AUTO"   -> <<"A","U","T","O"," ","(","1","0","1",")">>
      [] x = "RGB"    -> <<"R","G","B"," ","(","1",")">>
      [] x = "THEME"  -> <<"T","H","E","M","E"," ","(","2",")">>
      [] OTHER        -> <<"N","o","n","e">>

Wrap(open, text, close) == open \o text \o close

OpenMarker(n) == <<"[","R">> \o Str(n) \o <<"]">>
CloseMarker(n) == <<"[","/","R">> \o Str(n) \o <<"]">>

\* formatters.py:102-121: the tagged text of one run with index n
TaggedRun(run, n) ==
    LET t0 == run.text
        t1 == IF Truthy(run.bold)
              THEN Wrap(<<"<","b",">">>, t0, <<"<","/","b",">">>) ELSE t0
        t2 == IF Truthy(run.italic)
              THEN Wrap(<<"<","i",">">>, t1, <<"<","/","i",">">>) ELSE t1
        t3 == IF Truthy(run.underline)
              THEN Wrap(<<"<","u",">">>, t2, <<"<","/","u",">">>) ELSE t2
        t4 == IF Truthy(run.color)
              THEN Wrap(<<"<","c"," ","r","g","b","=","\"">> \o RgbStr(run.color) \o <<"\"",">">>,
                        t3, <<"<","/","c",">">>)
              ELSE t3
        t5 == IF Truthy(run.highlight_color)
              THEN Wrap(<<"<","h"," ","c","o","l","=","\"">>
                          \o EnumStr(run.highlight_color) \o <<"\"",">">>,
                        t4, <<"<","/","h",">">>)
              ELSE t4
    IN  OpenMarker(n) \o t5 \o CloseMarker(n)

\* formatters.py:13-126 over the runs from index k on; acc is
\* [tagged_text, run_styles, hyperlinks]; hyperlinks is a set of <<index, url>>
RECURSIVE EncodeFrom(_, _, _)
EncodeFrom(runs, k, acc) ==
    IF k > Len(runs) THEN acc
    ELSE LET run == runs[k]
             n == Len(acc.run_styles)
         IN  IF run.text = <<>> THEN EncodeFrom(runs, k + 1, acc)
             ELSE EncodeFrom(runs, k + 1,
                    [tagged_text |-> acc.tagged_text \o TaggedRun(run, n),
                     run_styles  |-> Append(acc.run_styles, StyleOf(run)),
                     hyperlinks  |-> IF Truthy(run.link)
                                     THEN acc.hyperlinks \cup {<<n, run.link>>}
                                     ELSE acc.hyperlinks])

paragraph_to_tagged_text(runs) ==
    EncodeFrom(runs, 1, [tagged_text |-> <<>>, run_styles |-> <<>>, hyperlinks |-> {}])

\* the index of the first occurrence of p in s at or after i, 0 if none
FindFrom(s, i, p) ==
    First({m \in i..Len(s) : MatchAt(s, m, p)})

\* the index after the digits that start at i
RECURSIVE DigitsEnd(_, _)
DigitsEnd(s, i) ==
    IF i <= Len(s) /\ IsDigit(s[i]) THEN DigitsEnd(s, i + 1) ELSE i

\* a prefix pat, then anything but a double quote, then '">' at i: the length
\* of the match of r'<c rgb="[^"]*">' (or of the h col pattern), 0 if none
AttrTagLenAt(s, i, pat) ==
    IF ~MatchAt(s, i, pat) THEN 0
    ELSE LET q == FindFrom(s, i + Len(pat), <<"\"">>)
         IN  IF q # 0 /\ q + 1 <= Len(s) /\ s[q + 1] = ">" THEN q + 2 - i ELSE 0

RECURSIVE StripAttrTag(_, _, _)
StripAttrTag(s, i, pat) ==
    LET j == First({m \in i..Len(s) : AttrTagLenAt(s, m, pat) > 0})
    IN  IF j = 0 THEN From(s, i)
        ELSE SubSeq(s, i, j - 1) \o StripAttrTag(s, j + AttrTagLenAt(s, j, pat), pat)

\* the length of the match of r'<[/]?[biuch]>' at i, 0 if none
SimpleTagLenAt(s, i) ==
    LET letters == {"b", "i", "u", "c", "h"}
    IN  IF i + 2 <= Len(s) /\ s[i] = "<" /\ s[i + 1] \in letters /\ s[i + 2] = ">"
        THEN 3
        ELSE IF i + 3 <= Len(s) /\ s[i] = "<" /\ s[i + 1] = "/"
                /\ s[i + 2] \in letters /\ s[i + 3] = ">"
        THEN 4
        ELSE 0

RECURSIVE StripSimpleTags(_, _)
StripSimpleTags(s, i) ==
    LET j == First({m \in i..Len(s) : SimpleTagLenAt(s, m) > 0})
    IN  IF j = 0 THEN From(s, i)
        ELSE SubSeq(s, i, j - 1) \o StripSimpleTags(s, j + SimpleTagLenAt(s, j))

\* formatters.py:170-181
parse_and_extract_text(tagged_content) ==
    LET a == StripAttrTag(tagged_content, 1, <<"<","c"," ","r","g","b","=","\"">>)
        b == StripAttrTag(a, 1, <<"<","h"," ","c","o","l","=","\"">>)
        c == StripSimpleTags(b, 1)
        d == Replace(c, <<"&","l","t",";">>, <<"<">>)
        e == Replace(d, <<"&","g","t",";">>, <<">">>)
    IN  Replace(e, <<"&","a","m","p",";">>, <<"&">>)

\* the length of the match of r'\[R(\d+)\](.*?)\[/R\1\]' (DOTALL) at i, 0 if none
RunSpanLenAt(s, i) ==
    IF ~MatchAt(s, i, <<"[","R">>) THEN 0
    ELSE LET e == DigitsEnd(s, i + 2)
             close == <<"[","/","R">> \o SubSeq(s, i + 2, e - 1) \o <<"]">>
             c == IF e > i + 2 /\ e <= Len(s) /\ s[e] = "]"
                  THEN FindFrom(s, e + 1, close) ELSE 0
         IN  IF c = 0 THEN 0 ELSE c + Len(close) - i

\* formatters.py:142-143: re.findall(r'\[R(\d+)\](.*?)\[/R\1\]', text, re.DOTALL)
\* from index i on, as a sequence of <<digits, content>>
RECURSIVE FindRuns(_, _)
FindRuns(s, i) ==
    LET j == First({m \in i..Len(s) : RunSpanLenAt(s, m) > 0})
    IN  IF j = 0 THEN <<>>
        ELSE LET e == DigitsEnd(s, j + 2)
                 n == RunSpanLenAt(s, j)
                 digits == SubSeq(s, j + 2, e - 1)
             IN  <<<<digits, SubSeq(s, e + 1, j + n - Len(digits) - 5)>>>>
                 \o FindRuns(s, j + n)

\* the url under index n, None if there is none
LinkOf(links, n) ==
    IF \E l \in links : l[1] = n THEN (CHOOSE l \in links : l[1] = n)[2] ELSE None

\* the toggle left as the captured flag says, whatever the tags say
ApplyToggleIgnoringTag(flag, tag, tagged_content) ==
    IF Truthy(flag) THEN flag ELSE None

\* formatters.py:226-229 and 231-234: the value of bold (italic) on the new run
ApplyToggle(flag, tag, tagged_content) ==
    IF Contains(tagged_content, tag) THEN "True"
    ELSE IF Truthy(flag) THEN flag
    ELSE None

\* formatters.py:183-273 on a run just created
apply_run_style(run, style, tagged_content) ==
    LET autoColor == ~Truthy(style.color) /\ Truthy(style.color_type)
                     /\ EnumStr(style.color_type) = EnumStr("AUTO")
    IN  [run EXCEPT
           !.name = IF Truthy(style.name) THEN style.name ELSE None,
           !.size = IF Truthy(style.size) THEN style.size ELSE None,
           !.color = IF Truthy(style.color) THEN style.color ELSE None,
           !.color_type = IF Truthy(style.color) THEN "RGB"
                          ELSE IF autoColor THEN "AUTO" ELSE None,
           !.highlight_color = IF Truthy(style.highlight_color)
                               THEN style.highlight_color ELSE None,
           !.bold = ApplyToggle(style.bold, <<"<","b",">">>, tagged_content),
           !.italic = ApplyToggle(style.italic, <<"<","i",">">>, tagged_content),
           !.underline = IF Truthy(style.underline) THEN style.underline ELSE None,
           !.style_id = IF Truthy(style.style_id) THEN style.style_id ELSE None,
           !.shading = IF Truthy(style.shading) THEN style.shading ELSE None]

\* the loop of formatters.py:145-168 left at the first pair whose index is
\* out of range
RECURSIVE DecodeUntilBadIndex(_, _, _, _)
DecodeUntilBadIndex(matches, k, styles, links) ==
    IF k > Len(matches) THEN <<>>
    ELSE LET run_idx == Int(matches[k][1])
             run_content == matches[k][2]
             clean_text == parse_and_extract_text(run_content)
         IN  IF run_idx >= Len(styles) THEN <<>>
             ELSE IF clean_text = <<>>
             THEN DecodeUntilBadIndex(matches, k + 1, styles, links)
             ELSE <<apply_run_style(NewRun(clean_text, LinkOf(links, run_idx)),
                                    styles[run_idx + 1], run_content)>>
                  \o DecodeUntilBadIndex(matches, k + 1, styles, links)

\* formatters.py:145-168 over the matches from index k on
RECURSIVE DecodeFrom(_, _, _, _)
DecodeFrom(matches, k, styles, links) ==
    IF k > Len(matches) THEN <<>>
    ELSE LET run_idx == Int(matches[k][1])
             run_content == matches[k][2]
             clean_text == parse_and_extract_text(run_content)
         IN  IF run_idx >= Len(styles) \/ clean_text = <<>>
             THEN DecodeFrom(matches, k + 1, styles, links)
             ELSE <<apply_run_style(NewRun(clean_text, LinkOf(links, run_idx)),
                                    styles[run_idx + 1], run_content)>>
                  \o DecodeFrom(matches, k + 1, styles, links)

\* a decoder that, finding no pair of markers, keeps the text in one run
\* with no style
tags_to_paragraph_keeping_text(text, styles, links) ==
    IF FindRuns(text, 1) = <<>>
    THEN <<NewRun(parse_and_extract_text(text), None)>>
    ELSE DecodeFrom(FindRuns(text, 1), 1, styles, links)

\* formatters.py:128-168: the runs of the paragraph after the call
tags_to_paragraph(text, styles, links) ==
    DecodeFrom(FindRuns(text, 1), 1, styles, links)

(***************************************************************************)
(* The three masking layers of DocumentTranslator._translate_paragraph     *)
(* (translator.py:116-161).                                                *)
(***************************************************************************)
\* the index after the spaces that start at i
RECURSIVE SpaceRunEnd(_, _)
SpaceRunEnd(s, i) ==
    IF i <= Len(s) /\ s[i] = " " THEN SpaceRunEnd(s, i + 1) ELSE i

\* f' [_WS_{n}_] '
WsToken(n) == <<" ","[","_","W","S","_">> \o Str(n) \o <<"_","]"," ">>

\* the length of the match of r'( {2,})' at i, 0 if none
SpaceRunLenAt(s, i) ==
    IF SpaceRunEnd(s, i) - i >= 2 THEN SpaceRunEnd(s, i) - i ELSE 0

\* translator.py:122: re.sub(r'( {2,})', lambda m: f' [_WS_{len(m.group(1))}_] ', text)
RECURSIVE ProtectWsFrom(_, _)
ProtectWsFrom(s, i) ==
    LET j == First({m \in i..Len(s) : SpaceRunLenAt(s, m) > 0})
    IN  IF j = 0 THEN From(s, i)
        ELSE SubSeq(s, i, j - 1) \o WsToken(SpaceRunLenAt(s, j))
             \o ProtectWsFrom(s, j + SpaceRunLenAt(s, j))

\* translator.py:120-122
ProtectWhitespace(text) ==
    IF Contains(text, <<" ", " ">>) THEN ProtectWsFrom(text, 1) ELSE text

\* the length of the match of r'\[/?R\d+\]' at i, 0 if none
MarkerLenAt(s, i) ==
    IF ~(i <= Len(s) /\ s[i] = "[") THEN 0
    ELSE LET r == IF i + 1 <= Len(s) /\ s[i + 1] = "/" THEN i + 2 ELSE i + 1
             e == DigitsEnd(s, r + 1)
         IN  IF r <= Len(s) /\ s[r] = "R" /\ e > r + 1 /\ e <= Len(s) /\ s[e] = "]"
             THEN e - i + 1 ELSE 0

\* the length of the match of r'<[^>]+>' at i, 0 if none
AngleLenAt(s, i) ==
    IF ~(i <= Len(s) /\ s[i] = "<") THEN 0
    ELSE LET g == FindFrom(s, i + 1, <<">">>)
         IN  IF g >= i + 2 THEN g - i + 1 ELSE 0

\* translator.py:134: tag_pattern = r'\[/?R\d+\]|<[^>]+>'
TagLenAt(s, i) ==
    IF MarkerLenAt(s, i) > 0 THEN MarkerLenAt(s, i) ELSE AngleLenAt(s, i)

\* the key without its closing "_]"
TagKeyUnclosed(n) == <<"[","_","T","G","_">> \o Str(n)

\* the key of a counter that never advances
TagKeyFirst(n) == <<"[","_","T","G","_","0","_","]">>

\* f"[_TG_{n}_]"
TagKey(n) == <<"[","_","T","G","_">> \o Str(n) \o <<"_","]">>

\* translator.py:127-135: re.sub(tag_pattern, protect_tag, text) from index i;
\* acc is [text, placeholders], placeholders a sequence of <<key, tag>>
RECURSIVE ProtectTagsFrom(_, _, _)
ProtectTagsFrom(s, i, acc) ==
    LET j == First({m \in i..Len(s) : TagLenAt(s, m) > 0})
        n == TagLenAt(s, j)
        key == TagKey(Len(acc.placeholders))
    IN  IF j = 0 THEN [text |-> acc.text \o From(s, i), placeholders |-> acc.placeholders]
        ELSE ProtectTagsFrom(s, j + n,
               [text |-> acc.text \o SubSeq(s, i, j - 1) \o key,
                placeholders |-> Append(acc.placeholders,
                                        <<key, SubSeq(s, j, j + n - 1)>>)])

ProtectTags(text) == ProtectTagsFrom(text, 1, [text |-> <<>>, placeholders |-> <<>>])

\* the tags put back by position: the n-th placeholder token of the text, whatever
\* its index, becomes the n-th tag
RECURSIVE RestoreTagsByPositionFrom(_, _, _, _)
RestoreTagsByPositionFrom(s, i, placeholders, n) ==
    LET keys == [m \in 1..Len(placeholders) |-> placeholders[m][1]]
        j == First({m \in i..Len(s) : Len(KeyAt(s, m, keys)) > 0})
    IN  IF j = 0 \/ n > Len(placeholders) THEN From(s, i)
        ELSE SubSeq(s, i, j - 1) \o placeholders[n][2]
             \o RestoreTagsByPositionFrom(s, j + Len(KeyAt(s, j, keys)),
                                          placeholders, n + 1)

RestoreTagsByPosition(text, placeholders) ==
    RestoreTagsByPositionFrom(text, 1, placeholders, 1)

\* translator.py:157-158: for key, value in tag_placeholders.items(): replace
RECURSIVE RestoreTags(_, _)
RestoreTags(text, placeholders) ==
    IF Len(placeholders) = 0 THEN text
    ELSE RestoreTags(Replace(text, Head(placeholders)[1], Head(placeholders)[2]),
                     Tail(placeholders))

\* the index after the white space that starts at i
RECURSIVE SkipSpace(_, _)
SkipSpace(s, i) ==
    IF i <= Len(s) /\ IsSpace(s[i]) THEN SkipSpace(s, i + 1) ELSE i

\* the index after the match of r'\[_WS_(\d+)_\]' at i, 0 if none
WsKeyEndAt(s, i) ==
    LET e == DigitsEnd(s, i + 5)
    IN  IF MatchAt(s, i, <<"[","_","W","S","_">>) /\ e > i + 5
           /\ MatchAt(s, e, <<"_","]">>)
        THEN e + 2 ELSE 0

\* the length of the match of r'\s*\[_WS_(\d+)_\]\s*' at i, 0 if none
WsMatchLenAt(s, i) ==
    LET e == WsKeyEndAt(s, SkipSpace(s, i))
    IN  IF e > 0 THEN SkipSpace(s, e) - i ELSE 0

\* translator.py:161:
\* re.sub(r'\s*\[_WS_(\d+)_\]\s*', lambda m: ' ' * int(m.group(1)), text)
RECURSIVE RestoreWsFrom(_, _)
RestoreWsFrom(s, i) ==
    LET j == First({m \in i..Len(s) : WsMatchLenAt(s, m) > 0})
        k == SkipSpace(s, j)
        e == WsKeyEndAt(s, k)
    IN  IF j = 0 THEN From(s, i)
        ELSE SubSeq(s, i, j - 1) \o Spaces(Int(SubSeq(s, k + 5, e - 3)))
             \o RestoreWsFrom(s, j + WsMatchLenAt(s, j))

RestoreWhitespace(text) == RestoreWsFrom(text, 1)

(***************************************************************************)
(* DocumentTranslator._has_turkish (translator.py:200-234).                *)
(***************************************************************************)
\* translator.py:205; the letters outside ASCII are named
turkish_chars == {"gbreve", "uuml", "scedil", "inodot", "ouml", "ccedil",
                  "Idot", "Gbreve", "Uuml", "Scedil", "Ouml", "Ccedil"}

\* translator.py:208-217.  The entries spelled with a letter of turkish_chars
\* are left out: a text that holds one of them holds that letter, and the test
\* of translator.py:222 has answered before this list is read.
turkish_words == <<
    <<" ","v","e"," ">>, <<" ","i","l","e"," ">>, <<" ","b","i","r"," ">>,
    <<" ","o","l","a","n"," ">>, <<" ","o","l","a","r","a","k"," ">>,
    <<" ","v","e","y","a"," ">>, <<" ","g","i","b","i"," ">>,
    <<" ","d","a","h","a"," ">>, <<" ","e","n"," ">>, <<" ","a","z"," ">>,
    <<" ","v","a","r"," ">>, <<" ","y","o","k"," ">>, <<"e","v","e","t">>,
    <<"o","r","t","a">>, <<"t","a","m">>, <<"k","r","i","t","e","r">>,
    <<"a","y">>, <<"h","a","f","t","a">>, <<"k","o","l","a","y">>,
    <<"z","o","r">>, <<"m","i","n","i","m","a","l">>,
    <<"g","e","n","e","l">>, <<"b","a","s","i","t">>,
    <<"k","a","r","m","a">>, <<"o","t","o","m","a","t","i","k">>,
    <<"h","e","r"," ","y","e","r","d","e","n">>,
    <<"k","o","o","r","d","i","n","e">>, <<"g","e","r","e","k","l","i">>,
    <<"b","u","l","u","t">>,
    <<"b","i","r","d","e","n"," ","f","a","z","l","a">>,
    <<"t","e","m","e","l">>, <<"y","o","k">>,
    <<"m","a","l","i","y","e","t","l","e","r","i">>,
    <<"o","p","t","i","m","i","z","e">>, <<"e","d","i","l","i","r">> >>

\* translator.py:230, without the suffixes spelled with a letter of turkish_chars
turkish_suffixes == <<
    <<"l","e","r","i">>, <<"l","a","r">>, <<"l","e","r">>, <<"d","i","r">>,
    <<"t","i","r">> >>

has_turkish(text) ==
    IF Len(text) = 0 \/ Len(Strip(text)) < 1 THEN FALSE
    ELSE \/ \E i \in 1..Len(text) : text[i] \in turkish_chars
         \/ \E w \in 1..Len(turkish_words) : Contains(LowerStr(text), turkish_words[w])
         \/ \E w \in 1..Len(turkish_suffixes) :
               EndsWith(LowerStr(text), turkish_suffixes[w])

(***************************************************************************)
(* The translation service, seen from engine.translate's caller: an opaque *)
(* function of the masked text (google_engine.py:49-55 returns whatever    *)
(* the HTTP response holds).  Each mode is one behaviour of the service.   *)
(***************************************************************************)
UpperChar(c) ==
    IF IsLower(c) THEN Uppers[CHOOSE i \in 1..26 : Lowers[i] = c] ELSE c

\* the indices of s where a token of keys starts
KeyStarts(s, keys) == {m \in 1..Len(s) : Len(KeyAt(s, m, keys)) > 0}

\* the indices of s that lie inside a token of keys
KeyIndices(s, keys) ==
    UNION {j..(j + Len(KeyAt(s, j, keys)) - 1) : j \in KeyStarts(s, keys)}

\* every placeholder token kept as it is, every other letter upper-cased
UpperRest(s, keys) ==
    LET kept == KeyIndices(s, keys)
    IN  [m \in 1..Len(s) |-> IF m \in kept THEN s[m] ELSE UpperChar(s[m])]

\* every placeholder token kept as it is, every other letter in the other case
SwapRest(s, keys) ==
    LET kept == KeyIndices(s, keys)
    IN  [m \in 1..Len(s) |->
            IF m \in kept THEN s[m]
            ELSE IF IsLower(s[m]) THEN UpperChar(s[m]) ELSE LowerChar(s[m])]

\* s from index i on, the tokens of keys (they start at the indices starts)
\* each replaced by its image
RECURSIVE RewriteAt(_, _, _, _, _)
RewriteAt(s, i, starts, keys, images) ==
    LET j == First({m \in starts : m >= i})
        k == KeyAt(s, j, keys)
    IN  IF j = 0 THEN From(s, i)
        ELSE SubSeq(s, i, j - 1) \o images[CHOOSE n \in 1..Len(keys) : keys[n] = k]
             \o RewriteAt(s, j + Len(k), starts, keys, images)

\* every token of keys rewritten by images (a key -> text map given as pairs)
RewriteKeys(s, i, keys, images) == RewriteAt(s, i, KeyStarts(s, keys), keys, images)

KeysOf(placeholders) == [n \in 1..Len(placeholders) |-> placeholders[n][1]]

\* "[_F0_]" written "[ _F0_]", "[_F0_ ]" or "[ _F0_ ]"
SpaceOpen(key) == Replace(key, <<"[">>, <<"[", " ">>)
SpaceClose(key) == Replace(key, <<"]">>, <<" ", "]">>)
SpaceBoth(key) == SpaceClose(SpaceOpen(key))

GlossaryEngineModes ==
    {"identity", "upper_rest", "space_open", "space_close", "space_both"}

\* the modes that hand every glossary placeholder back as it was sent
KeysIntact(mode) == mode \in {"identity", "upper_rest"}

ServiceReply(mode, text, keys) ==
    CASE mode = "identity"    -> text
      [] mode = "upper_rest"  -> UpperRest(text, keys)
      [] mode = "swap_rest"   -> SwapRest(text, keys)
      [] mode = "space_open"  ->
           RewriteKeys(text, 1, keys, [n \in 1..Len(keys) |-> SpaceOpen(keys[n])])
      [] mode = "space_close" ->
           RewriteKeys(text, 1, keys, [n \in 1..Len(keys) |-> SpaceClose(keys[n])])
      [] mode = "space_both"  ->
           RewriteKeys(text, 1, keys, [n \in 1..Len(keys) |-> SpaceBoth(keys[n])])
      [] OTHER -> text

(***************************************************************************)
(* Spec: one call of DocumentTranslator._translate_paragraph               *)
(* (translator.py:91-178) on one paragraph, a step at a time.              *)
(***************************************************************************)
MaxRuns == 2

Kriter == <<"K","r","i","t","e","r">>

Plain(text) == NewRun(text, None)
Bold(text) == [NewRun(text, None) EXCEPT !.bold = "True"]

\* the runs the paragraphs of Spec are made of
ParaRuns ==
    { Plain(Orta \o <<" ", " ">> \o Ay),
      Bold(Kriter \o <<" ", " ">> \o <<"ccedil","o","k">>),
      Plain(Ay \o <<"\t", " ", " ">> \o <<"x">>),
      Plain(<<"x">>),
      [NewRun(<<"t","a","m">>, "http://a") EXCEPT
          !.italic = "True", !.color = "FF0000", !.color_type = "RGB"],
      Plain(<<"<">> \o Ay),
      Plain(ErpSistemi \o <<" ">> \o Ay \o <<" ">> \o ERP) }

Paragraphs == SeqUpTo(ParaRuns, MaxRuns)

\* para.text (translator.py:98): python-docx 1.x joins the text of every run of
\* the paragraph, the runs inside hyperlinks included
ParaText(runs) == Concat([k \in 1..Len(runs) |-> runs[k].text])

Step(name, text) == [step |-> name, text |-> text]

Init ==
    /\ pc = "begin"
    /\ category \in {"general", "erp"}
    /\ para \in Paragraphs
    /\ para0 = para
    /\ tagged_text = <<>> /\ run_styles = <<>> /\ hyperlinks = {}
    /\ protected_text = <<>> /\ tag_placeholders = <<>>
    /\ masked_text = <<>> /\ term_placeholders = <<>>
    /\ translated_masked = <<>> /\ translated = <<>>
    /\ ret = "none" /\ engine = "none" /\ hist = <<>>
    /\ NoDocument

\* translator.py:98-114: the skips, then paragraph_to_tagged_text
Begin ==
    /\ pc = "begin"
    /\ LET original_text == ParaText(para)
           enc == paragraph_to_tagged_text(para)
       IN  IF Len(original_text) = 0 \/ Len(Strip(original_text)) < 2
           THEN /\ pc' = "skip_empty" /\ ret' = "False"
                /\ UNCHANGED <<tagged_text, run_styles, hyperlinks, hist>>
           ELSE IF ~has_turkish(original_text)
           THEN /\ pc' = "skip_no_markers" /\ ret' = "False"
                /\ UNCHANGED <<tagged_text, run_styles, hyperlinks, hist>>
           ELSE /\ tagged_text' = enc.tagged_text
                /\ run_styles' = enc.run_styles
                /\ hyperlinks' = enc.hyperlinks
                /\ hist' = Append(hist, Step("encode", enc.tagged_text))
                /\ IF Len(enc.tagged_text) = 0 \/ Len(Strip(enc.tagged_text)) < 2
                   THEN pc' = "encode_failed" /\ ret' = "False"
                   ELSE pc' = "protect_ws" /\ ret' = ret
    /\ UNCHANGED <<category, para, para0, protected_text, tag_placeholders,
                   masked_text, term_placeholders, translated_masked, translated,
                   engine>>
    /\ UNCHANGED docvars

\* translator.py:118-122
ProtectWs ==
    /\ pc = "protect_ws"
    /\ protected_text' = ProtectWhitespace(tagged_text)
    /\ hist' = Append(hist, Step("protect_ws", protected_text'))
    /\ pc' = "protect_tags"
    /\ UNCHANGED <<category, para, para0, tagged_text, run_styles, hyperlinks,
                   tag_placeholders, masked_text, term_placeholders,
                   translated_masked, translated, ret, engine>>
    /\ UNCHANGED docvars

\* translator.py:124-135
ProtectTg ==
    /\ pc = "protect_tags"
    /\ LET r == ProtectTags(protected_text)
       IN  /\ protected_text' = r.text
           /\ tag_placeholders' = r.placeholders
    /\ hist' = Append(hist, Step("protect_tags", protected_text'))
    /\ pc' = "protect_glossary"
    /\ UNCHANGED <<category, para, para0, tagged_text, run_styles, hyperlinks,
                   masked_text, term_placeholders, translated_masked, translated,
                   ret, engine>>
    /\ UNCHANGED docvars

\* translator.py:138
ProtectGlossary ==
    /\ pc = "protect_glossary"
    /\ LET r == protect_text(protected_text, category)
       IN  /\ masked_text' = r.text
           /\ term_placeholders' = r.placeholders
    /\ hist' = Append(hist, Step("protect_glossary", masked_text'))
    /\ pc' = "translate"
    /\ UNCHANGED <<category, para, para0, tagged_text, run_styles, hyperlinks,
                   protected_text, tag_placeholders, translated_masked, translated,
                   ret, engine>>
    /\ UNCHANGED docvars

\* the rearrangements of n placeholder tokens the service may make: the first
\* two swapped, the last two swapped, all reversed, all moved one slot on or back
Rearrangements(n) ==
    IF n < 2 THEN {}
    ELSE {[m \in 1..n |-> IF m = k THEN k + 1 ELSE IF m = k + 1 THEN k ELSE m] :
             k \in {1, n - 1}}
         \cup {[m \in 1..n |-> n + 1 - m],
               [m \in 1..n |-> (m % n) + 1],
               [m \in 1..n |-> ((m + n - 2) % n) + 1]}

EngineModes ==
    {"identity", "empty", "blank", "ws_zero", "upper_rest", "permute", "drop_tags"}

\* the sets of structural-tag keys a service loses: all of them, the first,
\* the second, the last
LostTags(tags) ==
    {S \in {1..Len(tags), {1}, {2}, {Len(tags)}} : S \subseteq 1..Len(tags)}

\* text with the keys of tags numbered in lost left out, the others kept
DropKeys(text, tags, lost) ==
    RewriteKeys(text, 1, tags,
                [n \in 1..Len(tags) |-> IF n \in lost THEN <<>> ELSE tags[n]])

\* what the service may answer to text in each mode; tags are the structural-tag
\* keys, keys all the placeholder keys sent
ServiceReplies(mode, text, tags, keys) ==
    CASE mode = "empty"   -> {<<>>}
      [] mode = "blank"   -> {<<" ">>, <<"\n", "\t">>}
      [] mode = "ws_zero" -> {WsToken(0)}
      [] mode = "drop_tags" ->
           {DropKeys(text, tags, lost) : lost \in LostTags(tags)}
           \cup {RewriteKeys(text, 1, tags,
                    [n \in 1..Len(tags) |-> IF n = 1 THEN SpaceBoth(tags[n]) ELSE tags[n]])}
      [] mode = "permute" ->
           {RewriteKeys(text, 1, tags, [n \in 1..Len(tags) |-> tags[f[n]]]) :
               f \in Rearrangements(Len(tags))}
      [] OTHER -> {ServiceReply(mode, text, keys)}

\* the test of translator.py:145 without its second half
ReplyIsEmptyNoStrip(reply) == Len(reply) = 0

\* translator.py:145: not translated_masked or len(translated_masked.strip()) < 1
ReplyIsEmpty(reply) == Len(reply) = 0 \/ Len(Strip(reply)) < 1

\* translator.py:142-147
Translate ==
    /\ pc = "translate"
    /\ \E mode \in EngineModes :
         \E reply \in ServiceReplies(mode, masked_text, KeysOf(tag_placeholders),
                          KeysOf(tag_placeholders) \o KeysOf(term_placeholders)) :
            /\ engine' = mode
            /\ translated_masked' = reply
            /\ hist' = Append(hist, Step("translate", reply))
            /\ IF ReplyIsEmpty(reply)
               THEN pc' = "empty_translation" /\ ret' = "False"
               ELSE pc' = "restore_glossary" /\ ret' = ret
    /\ UNCHANGED <<category, para, para0, tagged_text, run_styles, hyperlinks,
                   protected_text, tag_placeholders, masked_text,
                   term_placeholders, translated>>
    /\ UNCHANGED docvars

\* the tag restore of translator.py:157-158 standing where the glossary
\* restore of translator.py:152 stands
RestoreTagsInPlaceOfGlossary ==
    /\ pc = "restore_glossary"
    /\ translated' = RestoreTags(translated_masked, tag_placeholders)
    /\ hist' = Append(hist, Step("restore_tags", translated'))
    /\ pc' = "restore_tags"
    /\ UNCHANGED <<category, para, para0, tagged_text, run_styles, hyperlinks,
                   protected_text, tag_placeholders, masked_text,
                   term_placeholders, translated_masked, ret, engine>>
    /\ UNCHANGED docvars

\* translator.py:152
RestoreGlossary ==
    /\ pc = "restore_glossary"
    /\ translated' = restore_text(translated_masked, term_placeholders)
    /\ hist' = Append(hist, Step("restore_glossary", translated'))
    /\ pc' = "restore_tags"
    /\ UNCHANGED <<category, para, para0, tagged_text, run_styles, hyperlinks,
                   protected_text, tag_placeholders, masked_text,
                   term_placeholders, translated_masked, ret, engine>>
    /\ UNCHANGED docvars

\* translator.py:157-158
RestoreTg ==
    /\ pc = "restore_tags"
    /\ translated' = RestoreTags(translated, tag_placeholders)
    /\ hist' = Append(hist, Step("restore_tags", translated'))
    /\ pc' = "restore_ws"
    /\ UNCHANGED <<category, para, para0, tagged_text, run_styles, hyperlinks,
                   protected_text, tag_placeholders, masked_text,
                   term_placeholders, translated_masked, ret, engine>>
    /\ UNCHANGED docvars

\* translator.py:161
RestoreWs ==
    /\ pc = "restore_ws"
    /\ translated' = RestoreWhitespace(translated)
    /\ hist' = Append(hist, Step("restore_ws", translated'))
    /\ pc' = "cleanup"
    /\ UNCHANGED <<category, para, para0, tagged_text, run_styles, hyperlinks,
                   protected_text, tag_placeholders, masked_text,
                   term_placeholders, translated_masked, ret, engine>>
    /\ UNCHANGED docvars

\* translator.py:164
Cleanup ==
    /\ pc = "cleanup"
    /\ translated' = fix_concatenation_errors(translated)
    /\ hist' = Append(hist, Step("cleanup", translated'))
    /\ pc' = "finish"
    /\ UNCHANGED <<category, para, para0, tagged_text, run_styles, hyperlinks,
                   protected_text, tag_placeholders, masked_text,
                   term_placeholders, translated_masked, ret, engine>>
    /\ UNCHANGED docvars

\* translator.py:166-178 without the comparison of lines 172-173
FinishWithoutChangeCheck ==
    /\ pc = "finish"
    /\ IF Len(translated) = 0 \/ Len(Strip(translated)) < 1
       THEN pc' = "empty_final" /\ ret' = "False" /\ UNCHANGED <<para, hist>>
       ELSE /\ para' = tags_to_paragraph(translated, run_styles, hyperlinks)
            /\ hist' = Append(hist, Step("decode", translated))
            /\ pc' = "applied" /\ ret' = "True"
    /\ UNCHANGED <<category, para0, tagged_text, run_styles, hyperlinks,
                   protected_text, tag_placeholders, masked_text,
                   term_placeholders, translated_masked, translated, engine>>
    /\ UNCHANGED docvars

\* translator.py:166-178: the last two checks, then tags_to_paragraph
Finish ==
    /\ pc = "finish"
    /\ IF Len(translated) = 0 \/ Len(Strip(translated)) < 1
       THEN pc' = "empty_final" /\ ret' = "False" /\ UNCHANGED <<para, hist>>
       ELSE IF translated = tagged_text
       THEN pc' = "unchanged" /\ ret' = "False" /\ UNCHANGED <<para, hist>>
       ELSE /\ para' = tags_to_paragraph(translated, run_styles, hyperlinks)
            /\ hist' = Append(hist, Step("decode", translated))
            /\ pc' = "applied" /\ ret' = "True"
    /\ UNCHANGED <<category, para0, tagged_text, run_styles, hyperlinks,
                   protected_text, tag_placeholders, masked_text,
                   term_placeholders, translated_masked, translated, engine>>
    /\ UNCHANGED docvars

Next ==
    \/ Begin \/ ProtectWs \/ ProtectTg \/ ProtectGlossary \/ Translate
    \/ RestoreGlossary \/ RestoreTg \/ RestoreWs \/ Cleanup \/ Finish

Spec == Init /\ [][Next]_vars

(***************************************************************************)
(* SpecRoundTrip: paragraph_to_tagged_text, then tags_to_paragraph on its  *)
(* own output (formatters.py:13-181).                                      *)
(***************************************************************************)
MaxRoundTripRuns == 2

X == <<"x">>

\* runs that differ in one captured field, or whose text looks like markup
RoundTripRuns ==
    { Plain(X),
      Plain(<<>>),
      Plain(<<"&","a","m","p",";">>),
      Plain(<<"<","b",">","x">>),
      Plain(<<"[","/","R","0","]">>),
      Bold(X),
      [Plain(X) EXCEPT !.bold = "False"],
      [Plain(X) EXCEPT !.italic = "True"],
      [Plain(X) EXCEPT !.underline = "False"],
      [Plain(X) EXCEPT !.underline = "DOUBLE"],
      [Plain(X) EXCEPT !.color = "FF0000", !.color_type = "RGB"],
      [Plain(X) EXCEPT !.color_type = "THEME"],
      [Plain(X) EXCEPT !.color_type = "AUTO"],
      [Plain(X) EXCEPT !.size = "12pt", !.name = "Arial"],
      [Plain(X) EXCEPT !.highlight_color = "YELLOW"],
      [Plain(X) EXCEPT !.shading = "FFFF00", !.style_id = "Strong"],
      NewRun(X, "http://a") }

RoundTripInit ==
    /\ pc = "rt_encode"
    /\ para \in SeqUpTo(RoundTripRuns, MaxRoundTripRuns)
    /\ para0 = para
    /\ category = "general"
    /\ tagged_text = <<>> /\ run_styles = <<>> /\ hyperlinks = {}
    /\ protected_text = <<>> /\ tag_placeholders = <<>>
    /\ masked_text = <<>> /\ term_placeholders = <<>>
    /\ translated_masked = <<>> /\ translated = <<>>
    /\ ret = "none" /\ engine = "none" /\ hist = <<>>
    /\ NoDocument

\* formatters.py:13-126
RoundTripEncode ==
    /\ pc = "rt_encode"
    /\ LET enc == paragraph_to_tagged_text(para)
       IN  /\ tagged_text' = enc.tagged_text
           /\ run_styles' = enc.run_styles
           /\ hyperlinks' = enc.hyperlinks
    /\ pc' = "rt_decode"
    /\ UNCHANGED <<category, para, para0, protected_text, tag_placeholders,
                   masked_text, term_placeholders, translated_masked, translated,
                   ret, engine, hist>>
    /\ UNCHANGED docvars

\* formatters.py:128-168
RoundTripDecode ==
    /\ pc = "rt_decode"
    /\ para' = tags_to_paragraph(tagged_text, run_styles, hyperlinks)
    /\ pc' = "rt_done"
    /\ UNCHANGED <<category, para0, tagged_text, run_styles, hyperlinks,
                   protected_text, tag_placeholders, masked_text,
                   term_placeholders, translated_masked, translated, ret, engine,
                   hist>>
    /\ UNCHANGED docvars

RoundTripNext == RoundTripEncode \/ RoundTripDecode

SpecRoundTrip == RoundTripInit /\ [][RoundTripNext]_vars

(***************************************************************************)
(* SpecGlossary: protect_text, the service, restore_text on one text.      *)
(***************************************************************************)
MaxPieces == 3

GlossaryPieces(cat) ==
    CASE cat = "general" ->
           {Orta, LowerStr(Orta), <<"m">>, <<" ">>, Ay, <<" ">> \o Ay}
      [] cat = "Technology" ->
           {ERP, LowerStr(ERP), Word, <<" ">>, <<"s">>}
      [] OTHER ->
           {ErpSistemi, ERP, Sistemi, <<" ">>, <<"x">>}

GlossaryInputs(cat) ==
    {Concat(ps) : ps \in SeqUpTo(GlossaryPieces(cat), MaxPieces)}

NoPara == <<>>

GlossaryInit ==
    /\ pc = "g_protect"
    /\ category \in Categories
    /\ protected_text \in GlossaryInputs(category)
    /\ para = NoPara /\ para0 = NoPara
    /\ tagged_text = <<>> /\ run_styles = <<>> /\ hyperlinks = {}
    /\ tag_placeholders = <<>>
    /\ masked_text = <<>> /\ term_placeholders = <<>>
    /\ translated_masked = <<>> /\ translated = <<>>
    /\ ret = "none" /\ engine = "none" /\ hist = <<>>
    /\ NoDocument

\* glossary.protect_text(text, category)
GProtect ==
    /\ pc = "g_protect"
    /\ LET r == protect_text(protected_text, category)
       IN  /\ masked_text' = r.text
           /\ term_placeholders' = r.placeholders
    /\ pc' = "g_translate"
    /\ UNCHANGED <<category, para, para0, tagged_text, run_styles, hyperlinks,
                   protected_text, tag_placeholders, translated_masked,
                   translated, ret, engine, hist>>
    /\ UNCHANGED docvars

\* the service answers
GTranslate ==
    /\ pc = "g_translate"
    /\ \E mode \in GlossaryEngineModes :
          /\ engine' = mode
          /\ translated_masked' =
                ServiceReply(mode, masked_text, KeysOf(term_placeholders))
    /\ pc' = "g_restore"
    /\ UNCHANGED <<category, para, para0, tagged_text, run_styles, hyperlinks,
                   protected_text, tag_placeholders, masked_text,
                   term_placeholders, translated, ret, hist>>
    /\ UNCHANGED docvars

\* glossary.restore_text(text, placeholders)
GRestore ==
    /\ pc = "g_restore"
    /\ translated' = restore_text(translated_masked, term_placeholders)
    /\ pc' = "g_done"
    /\ UNCHANGED <<category, para, para0, tagged_text, run_styles, hyperlinks,
                   protected_text, tag_placeholders, masked_text,
                   term_placeholders, translated_masked, ret, engine, hist>>
    /\ UNCHANGED docvars

GlossaryNext == GProtect \/ GTranslate \/ GRestore

SpecGlossary == GlossaryInit /\ [][GlossaryNext]_vars

(***************************************************************************)
(* SpecCleanup: fix_concatenation_errors applied to a text, then to its    *)
(* own result.                                                             *)
(***************************************************************************)
CleanupPieces ==
    { <<"R","e","t">>, <<"A","I","l">>, <<"i","n","k","e","d","o","f">>,
      <<"M","o","r","e">>, <<"l","o","w">>, <<"W","h","e","n">>,
      <<"u","s","e","d">>, <<"D","r","i","n","k">>, <<" ">>,
      <<"d","a","t","a">>, <<"a">>, <<"B">> }

CleanupInputs == {Concat(ps) : ps \in SeqUpTo(CleanupPieces, MaxPieces)}

CleanupInit ==
    /\ pc = "c_first"
    /\ translated \in CleanupInputs
    /\ hist = <<translated>>
    /\ category = "general"
    /\ para = NoPara /\ para0 = NoPara
    /\ tagged_text = <<>> /\ run_styles = <<>> /\ hyperlinks = {}
    /\ protected_text = <<>> /\ tag_placeholders = <<>>
    /\ masked_text = <<>> /\ term_placeholders = <<>>
    /\ translated_masked = <<>>
    /\ ret = "none" /\ engine = "none"
    /\ NoDocument

\* translated = self.glossary.fix_concatenation_errors(translated)
CleanupApply ==
    /\ pc \in {"c_first", "c_second"}
    /\ translated' = fix_concatenation_errors(translated)
    /\ hist' = Append(hist, translated')
    /\ pc' = IF pc = "c_first" THEN "c_second" ELSE "c_done"
    /\ UNCHANGED <<category, para, para0, tagged_text, run_styles, hyperlinks,
                   protected_text, tag_placeholders, masked_text,
                   term_placeholders, translated_masked, ret, engine>>
    /\ UNCHANGED docvars

CleanupNext == CleanupApply

SpecCleanup == CleanupInit /\ [][CleanupNext]_vars

(***************************************************************************)
(* SpecDocument: DocumentTranslator.translate (translator.py:39-74) on a   *)
(* document, a paragraph or a cell at a time, and then one more call of    *)
(* _final_cleanup_pass on the translated document.  Every cell holds one   *)
(* paragraph.  The service is deterministic: engine is the function it     *)
(* computes, the same for every call.                                      *)
(***************************************************************************)
\* sys.maxsize of a 64-bit build, the largest count str.__mul__ accepts
SsizeMaxDigits ==
    <<"9","2","2","3","3","7","2","0","3","6","8","5","4","7","7","5","8","0","7">>

\* d without its leading zeros
RECURSIVE StripZeros(_)
StripZeros(d) == IF Len(d) > 0 /\ d[1] = "0" THEN StripZeros(Tail(d)) ELSE d

\* int(d) > sys.maxsize, for a text of digits d
ExceedsSsize(d) ==
    LET n == StripZeros(d)
    IN  \/ Len(n) > Len(SsizeMaxDigits)
        \/ /\ Len(n) = Len(SsizeMaxDigits)
           /\ \E k \in 1..Len(n) :
                 /\ DigitVal(n[k]) > DigitVal(SsizeMaxDigits[k])
                 /\ \A m \in 1..(k - 1) : n[m] = SsizeMaxDigits[m]

\* translator.py:161 raises: ' ' * int(m.group(1)) is an OverflowError when the
\* number of some whitespace token of text is above sys.maxsize
RestoreWhitespaceRaises(text) ==
    \E i \in 1..Len(text) :
       /\ WsKeyEndAt(text, i) > 0
       /\ ExceedsSsize(SubSeq(text, i + 5, WsKeyEndAt(text, i) - 3))

\* what a call of _translate_paragraph gives: what it returns ("raise" when it
\* raises) and the runs it leaves in the paragraph
Outcome(result, runs) == [ret |-> result, para |-> runs]

\* translator.py:166-178
Rebuilt(runs, enc, final) ==
    IF Len(final) = 0 \/ Len(Strip(final)) < 1 THEN Outcome("False", runs)
    ELSE IF final = enc.tagged_text THEN Outcome("False", runs)
    ELSE Outcome("True", tags_to_paragraph(final, enc.run_styles, enc.hyperlinks))

\* translator.py:161-164
Unwound(runs, enc, restored) ==
    IF RestoreWhitespaceRaises(restored) THEN Outcome("raise", runs)
    ELSE Rebuilt(runs, enc, fix_concatenation_errors(RestoreWhitespace(restored)))

\* translator.py:145-158
Answered(runs, enc, tg, gl, reply) ==
    IF ReplyIsEmpty(reply) THEN Outcome("False", runs)
    ELSE Unwound(runs, enc,
                 RestoreTags(restore_text(reply, gl.placeholders), tg.placeholders))

\* translator.py:142
Sent(runs, mode, enc, tg, gl) ==
    Answered(runs, enc, tg, gl,
             ServiceReply(mode, gl.text,
                          KeysOf(tg.placeholders) \o KeysOf(gl.placeholders)))

\* translator.py:138
Masking(runs, cat, mode, enc, tg) ==
    Sent(runs, mode, enc, tg, protect_text(tg.text, cat))

\* translator.py:112-135
Encoded(runs, cat, mode, enc) ==
    IF Len(enc.tagged_text) = 0 \/ Len(Strip(enc.tagged_text)) < 2
    THEN Outcome("False", runs)
    ELSE Masking(runs, cat, mode, enc, ProtectTags(ProtectWhitespace(enc.tagged_text)))

\* translator.py:91-178 as one function of the paragraph
translate_paragraph(runs, cat, mode) ==
    IF Len(ParaText(runs)) = 0 \/ Len(Strip(ParaText(runs))) < 2
    THEN Outcome("False", runs)
    ELSE IF ~has_turkish(ParaText(runs)) THEN Outcome("False", runs)
    ELSE Encoded(runs, cat, mode, paragraph_to_tagged_text(runs))

\* formatters.py:349-360
should_skip_cell(cell) ==
    \E k \in 1..Len(cell) :
       \/ cell[k].name \in {"Wingdings", "Symbol", "Webdings"}
       \/ /\ Len(Strip(cell[k].text)) = 1
          /\ Strip(cell[k].text)[1] \in {"check", "cross", "bullet"}

MaxDocParagraphs == 2
MaxDocCells == 1

Tam == <<"t","a","m">>
Amp == <<"&","a","m","p",";">>
HugeWsToken == <<"[","_","W","S","_">> \o [k \in 1..20 |-> "9"] \o <<"_","]">>

\* the paragraphs the documents are made of
DocParagraphs ==
    { <<Plain(Orta \o <<" ">> \o Ay \o <<" ">> \o X)>>,
      <<Plain(X)>>,
      <<Plain(Tam \o <<" ">> \o Amp \o <<"a","m","p",";","a","m","p",";">>)>>,
      <<Plain(Tam \o <<" ">> \o HugeWsToken)>> }

\* the cells: a text cell and a cell set in a symbol font
DocCells ==
    { <<Plain(Ay \o <<" ", " ">> \o X)>>,
      <<[Plain(Tam \o <<" ">> \o Amp \o <<"l","t",";">>) EXCEPT !.name = "Wingdings"]>> }

DocEngineModes == {"identity", "upper_rest", "swap_rest"}

DocumentInit ==
    /\ pc = "doc_paragraphs"
    /\ category = "general"
    /\ engine \in DocEngineModes
    /\ \E ps \in SeqUpTo(DocParagraphs, MaxDocParagraphs) :
         \E cs \in SeqUpTo(DocCells, MaxDocCells) :
            doc = [paragraphs |-> ps, cells |-> cs]
    /\ pos = 1
    /\ counts = <<0>>
    /\ output = "none"
    /\ hist = <<doc>>
    /\ NoStore
    /\ para = NoPara /\ para0 = NoPara
    /\ tagged_text = <<>> /\ run_styles = <<>> /\ hyperlinks = {}
    /\ protected_text = <<>> /\ tag_placeholders = <<>>
    /\ masked_text = <<>> /\ term_placeholders = <<>>
    /\ translated_masked = <<>> /\ translated = <<>>
    /\ ret = "none"

\* the untouched part of the state in every step of translate
DocFrame ==
    UNCHANGED <<category, para, para0, tagged_text, run_styles, hyperlinks,
                protected_text, tag_placeholders, masked_text, term_placeholders,
                translated_masked, translated, ret, engine, glossary>>

\* count += 1 (translator.py:86, 196, 248, 258)
Counted(r) ==
    IF r.ret = "True"
    THEN [counts EXCEPT ![Len(counts)] = counts[Len(counts)] + 1]
    ELSE counts

\* a pass is over and the next begins at the first item
NextPass(next) ==
    /\ pc' = next
    /\ pos' = 1
    /\ counts' = Append(counts, 0)
    /\ hist' = Append(hist, doc)
    /\ UNCHANGED <<doc, output>>

\* an error raised under translate leaves it: nothing catches it
Propagate ==
    /\ pc' = "doc_raised"
    /\ output' = "raised"
    /\ UNCHANGED <<doc, pos, counts, hist>>

\* translator.py:81-86: one turn of the loop over doc.paragraphs
TranslateParagraphsStep ==
    /\ pc = "doc_paragraphs"
    /\ pos <= Len(doc.paragraphs)
    /\ LET r == translate_paragraph(doc.paragraphs[pos], category, engine)
       IN  IF r.ret = "raise" THEN Propagate
           ELSE /\ doc' = [doc EXCEPT !.paragraphs[pos] = r.para]
                /\ counts' = Counted(r)
                /\ pos' = pos + 1
                /\ UNCHANGED <<pc, output, hist>>
    /\ DocFrame

\* translator.py:88-89 and 56-60
TranslateParagraphsEnd ==
    /\ pc = "doc_paragraphs"
    /\ pos > Len(doc.paragraphs)
    /\ NextPass("doc_tables")
    /\ DocFrame

\* translator.py:187-196: one turn of the loop over the cells
TranslateTablesStep ==
    /\ pc = "doc_tables"
    /\ pos <= Len(doc.cells)
    /\ LET r == translate_paragraph(doc.cells[pos], category, engine)
       IN  IF should_skip_cell(doc.cells[pos])
           THEN /\ pos' = pos + 1
                /\ UNCHANGED <<pc, doc, counts, output, hist>>
           ELSE IF r.ret = "raise" THEN Propagate
           ELSE /\ doc' = [doc EXCEPT !.cells[pos] = r.para]
                /\ counts' = Counted(r)
                /\ pos' = pos + 1
                /\ UNCHANGED <<pc, output, hist>>
    /\ DocFrame

\* translator.py:198 and 60-65
TranslateTablesEnd ==
    /\ pc = "doc_tables"
    /\ pos > Len(doc.cells)
    /\ NextPass("doc_cleanup")
    /\ DocFrame

\* translator.py:245 and 256: para.text and self._has_turkish(para.text)
NeedsCleanup(runs) == Len(ParaText(runs)) > 0 /\ has_turkish(ParaText(runs))

\* translator.py:244-258: one turn of the loops of _final_cleanup_pass, over
\* the paragraphs first and the cells after them
FinalCleanupStep ==
    /\ pc \in {"doc_cleanup", "doc_again"}
    /\ pos <= Len(doc.paragraphs) + Len(doc.cells)
    /\ LET body == pos <= Len(doc.paragraphs)
           k == IF body THEN pos ELSE pos - Len(doc.paragraphs)
           runs == IF body THEN doc.paragraphs[k] ELSE doc.cells[k]
           r == translate_paragraph(runs, category, engine)
       IN  IF ~NeedsCleanup(runs)
           THEN /\ pos' = pos + 1
                /\ UNCHANGED <<pc, doc, counts, output, hist>>
           ELSE IF r.ret = "raise" THEN Propagate
           ELSE /\ doc' = IF body THEN [doc EXCEPT !.paragraphs[k] = r.para]
                                  ELSE [doc EXCEPT !.cells[k] = r.para]
                /\ counts' = Counted(r)
                /\ pos' = pos + 1
                /\ UNCHANGED <<pc, output, hist>>
    /\ DocFrame

\* translator.py:260 and 65-74: the pass returns, the document is saved and
\* the stream handed back
FinalCleanupEnd ==
    /\ pc = "doc_cleanup"
    /\ pos > Len(doc.paragraphs) + Len(doc.cells)
    /\ pc' = "doc_returned"
    /\ output' = "stream"
    /\ UNCHANGED <<doc, pos, counts, hist>>
    /\ DocFrame

\* _final_cleanup_pass is called on the translated document once more
CleanupAgain ==
    /\ pc = "doc_returned"
    /\ NextPass("doc_again")
    /\ DocFrame

\* translator.py:260: that call returns
CleanupAgainEnd ==
    /\ pc = "doc_again"
    /\ pos > Len(doc.paragraphs) + Len(doc.cells)
    /\ pc' = "doc_again_done"
    /\ UNCHANGED <<doc, pos, counts, output, hist>>
    /\ DocFrame

DocumentNext ==
    \/ TranslateParagraphsStep \/ TranslateParagraphsEnd
    \/ TranslateTablesStep \/ TranslateTablesEnd
    \/ FinalCleanupStep \/ FinalCleanupEnd
    \/ CleanupAgain \/ CleanupAgainEnd

SpecDocument == DocumentInit /\ [][DocumentNext]_vars

(***************************************************************************)
(* SpecEngine: one call of engine.translate(text), for GoogleTranslator    *)
(* (google_engine.py:14-68) and DeepLTranslator (deepl_engine.py:15-47).   *)
(* Each HTTP request is a step; what the service does with it (its status, *)
(* or an exception under requests / response.json()) is chosen freely.     *)
(* hist is the log of the requests sent, oldest first.                     *)
(***************************************************************************)
MAX_CHUNK_SIZE == 1500

MaxChunks == 2

\* google_engine.py:16, deepl_engine.py:17: not text or len(text.strip()) < 2
TooShort(text) == Len(text) = 0 \/ Len(Strip(text)) < 2

\* what a 200 response carries for text: the service's translation, here the
\* text in capitals
Translation(text) == [i \in 1..Len(text) |-> UpperChar(text[i])]

\* a value returned, or an exception leaving the function
Returned(value) == [raised |-> FALSE, value |-> value]
Raised == [raised |-> TRUE, value |-> <<>>]

GoogleOutcomes == {"200", "429", "400", "500", "exception"}
DeepLOutcomes == {"200", "403", "exception"}

\* _send_request with no except clause
send_request_uncaught(text, outcome) ==
    IF outcome = "200" THEN Returned(Translation(text))
    ELSE IF outcome = "exception" THEN Raised
    ELSE Returned(text)

\* google_engine.py:38-68
send_request(text, outcome) ==
    CASE outcome = "200" -> Returned(Translation(text))
      [] outcome = "429" -> Returned(text)
      [] outcome = "400" -> Returned(text)
      [] outcome = "exception" -> Returned(text)
      [] OTHER -> Returned(text)

\* google_engine.py:28: range(0, len(text), MAX_CHUNK_SIZE)
NumChunks(text) == (Len(text) + MAX_CHUNK_SIZE - 1) \div MAX_CHUNK_SIZE

\* google_engine.py:28: text[i:i + MAX_CHUNK_SIZE] for the k-th start i
Chunk(text, k) ==
    SubSeq(text, (k - 1) * MAX_CHUNK_SIZE + 1,
           IF k * MAX_CHUNK_SIZE < Len(text) THEN k * MAX_CHUNK_SIZE ELSE Len(text))

\* the chunks joined last first
JoinReversed(chunks) == Concat([k \in 1..Len(chunks) |-> chunks[Len(chunks) + 1 - k]])

\* google_engine.py:36: "".join(translated_chunks)
Join(chunks) == Concat(chunks)

\* google_engine.py:14-36 as a function of the text and of what each request met
google_translate(text, outcomes) ==
    IF TooShort(text) THEN text
    ELSE IF Len(text) <= MAX_CHUNK_SIZE THEN send_request(text, outcomes[1]).value
    ELSE Join([k \in 1..NumChunks(text) |->
                  send_request(Chunk(text, k), outcomes[k]).value])

Request(service, text, outcome, result) ==
    [service |-> service, text |-> text, outcome |-> outcome, result |-> result]

\* translated_chunks: what the requests to the GET-based service gave, in order
GoogleEntries == SelectSeq(hist, LAMBDA e : e.service = "google")
translated_chunks == [k \in 1..Len(GoogleEntries) |-> GoogleEntries[k].result]

\* a text of n letters
Letters(n) == [i \in 1..n |-> Lowers[(i % 26) + 1]]

\* the texts handed to the engine: short ones, and texts at and just over every
\* multiple of the chunk size up to MaxChunks chunks
EngineTexts ==
    {<<>>, <<"a">>, <<" ", "a", " ">>, Ay, Ay \o <<" ">> \o X}
    \cup {Letters(k * MAX_CHUNK_SIZE + d) : k \in 1..MaxChunks, d \in {0, 1}}

EngineInit ==
    /\ engine \in {"google", "deepl"}
    /\ pc = IF engine = "deepl" THEN "e_deepl" ELSE "e_google"
    /\ masked_text \in EngineTexts
    /\ translated_masked = <<>>
    /\ hist = <<>>
    /\ pos = 0
    /\ doc = [paragraphs |-> <<>>, cells |-> <<>>]
    /\ counts = <<>>
    /\ output = "none"
    /\ NoStore
    /\ category = "general"
    /\ para = NoPara /\ para0 = NoPara
    /\ tagged_text = <<>> /\ run_styles = <<>> /\ hyperlinks = {}
    /\ protected_text = <<>> /\ tag_placeholders = <<>>
    /\ term_placeholders = <<>>
    /\ translated = <<>>
    /\ ret = "none"

EngineFrame ==
    UNCHANGED <<category, para, para0, tagged_text, run_styles, hyperlinks,
                protected_text, tag_placeholders, masked_text, term_placeholders,
                translated, ret, engine, doc, counts, output, glossary>>

\* return value
Return(value) ==
    /\ translated_masked' = value
    /\ pc' = "e_returned"

\* an exception leaves translate
Raise ==
    /\ pc' = "e_raised"
    /\ UNCHANGED translated_masked

\* deepl_engine.py:15-47; the fallback call of lines 41 and 47 is the next step
DeepLTranslate ==
    /\ pc = "e_deepl"
    /\ IF TooShort(masked_text)
       THEN Return(masked_text) /\ UNCHANGED hist
       ELSE \E outcome \in DeepLOutcomes :
              IF outcome = "200"
              THEN /\ Return(Translation(masked_text))
                   /\ hist' = Append(hist, Request("deepl", masked_text, outcome,
                                                   Translation(masked_text)))
              ELSE /\ pc' = "e_google"
                   /\ hist' = Append(hist, Request("deepl", masked_text, outcome, <<>>))
                   /\ UNCHANGED translated_masked
    /\ UNCHANGED pos
    /\ EngineFrame

\* google_engine.py:16-28: the short text, the single request, or the split
GoogleTranslate ==
    /\ pc = "e_google"
    /\ IF TooShort(masked_text)
       THEN Return(masked_text) /\ UNCHANGED <<hist, pos>>
       ELSE IF Len(masked_text) <= MAX_CHUNK_SIZE
       THEN \E outcome \in GoogleOutcomes :
              LET r == send_request(masked_text, outcome)
              IN  /\ hist' = Append(hist, Request("google", masked_text, outcome, r.value))
                  /\ IF r.raised THEN Raise ELSE Return(r.value)
                  /\ UNCHANGED pos
       ELSE /\ pc' = "e_chunks"
            /\ pos' = 1
            /\ UNCHANGED <<hist, translated_masked>>
    /\ EngineFrame

\* google_engine.py:31-34: one turn of the loop over the chunks
GoogleChunk ==
    /\ pc = "e_chunks"
    /\ pos <= NumChunks(masked_text)
    /\ \E outcome \in GoogleOutcomes :
         LET chunk == Chunk(masked_text, pos)
             r == send_request(chunk, outcome)
         IN  /\ hist' = Append(hist, Request("google", chunk, outcome, r.value))
             /\ IF r.raised
                THEN Raise /\ UNCHANGED pos
                ELSE /\ pos' = pos + 1
                     /\ UNCHANGED <<pc, translated_masked>>
    /\ EngineFrame

\* google_engine.py:36
GoogleJoin ==
    /\ pc = "e_chunks"
    /\ pos > NumChunks(masked_text)
    /\ Return(Join(translated_chunks))
    /\ UNCHANGED <<hist, pos>>
    /\ EngineFrame

EngineNext == DeepLTranslate \/ GoogleTranslate \/ GoogleChunk \/ GoogleJoin

SpecEngine == EngineInit /\ [][EngineNext]_vars

(***************************************************************************)
(* SpecDecode: one call of TagFormatter.tags_to_paragraph                  *)
(* (formatters.py:128-168) on a text of span-marker pairs, with the styles *)
(* of a paragraph.  hist holds the pairs the text is made of.  The call    *)
(* either finds every assignment of _apply_run_style working, or finds one *)
(* attribute whose assignment raises wherever it is tried.                 *)
(***************************************************************************)
MaxSpans == 3

Span(idx, content) == [idx |-> idx, content |-> content]

\* "[Rn]" content "[/Rn]" for every pair, in order
SpanText(spans) ==
    Concat([k \in 1..Len(spans) |->
              OpenMarker(spans[k].idx) \o spans[k].content \o CloseMarker(spans[k].idx)])

SpanContents ==
    { X,
      <<"<","b",">","<","i",">","y","<","/","i",">","<","/","b",">">> }

SpanKinds == {Span(n, c) : n \in 0..2, c \in SpanContents}

FullStyle ==
    StyleOf(Run(X, "True", "True", "True", "FF0000", "RGB", "12pt", "Arial",
                "YELLOW", "FFFF00", "Strong", None))

\* the captured styles of a paragraph of one, two and three runs
StyleLists ==
    { << StyleOf(Plain(X)) >>,
      << StyleOf([Plain(X) EXCEPT !.bold = "False", !.italic = "True"]), FullStyle >>,
      << FullStyle,
         StyleOf([Plain(X) EXCEPT !.italic = "False", !.color_type = "AUTO"]),
         StyleOf(Bold(X)) >> }

\* the attributes _apply_run_style assigns, in the order of its statements;
\* "color" and "auto_color" are the two branches of formatters.py:198-215
StyleAttributes ==
    <<"name", "size", "color", "auto_color", "highlight_color", "bold", "italic",
      "underline", "style_id", "shading">>

\* the assignments that stand in no try block (formatters.py:226-237)
Unguarded == {"bold", "italic", "underline"}

\* the assignment of attribute a comes after that of attribute b
After(a, b) ==
    \E m, n \in 1..Len(StyleAttributes) :
        StyleAttributes[m] = b /\ StyleAttributes[n] = a /\ m < n

\* _apply_run_style reaches the assignment of attribute a
Attempted(a, style, tagged_content) ==
    CASE a = "name" -> Truthy(style.name)
      [] a = "size" -> Truthy(style.size)
      [] a = "color" -> Truthy(style.color)
      [] a = "auto_color" ->
           /\ ~Truthy(style.color)
           /\ Truthy(style.color_type)
           /\ EnumStr(style.color_type) = EnumStr("AUTO")
      [] a = "highlight_color" -> Truthy(style.highlight_color)
      [] a = "bold" -> Contains(tagged_content, <<"<","b",">">>) \/ Truthy(style.bold)
      [] a = "italic" -> Contains(tagged_content, <<"<","i",">">>) \/ Truthy(style.italic)
      [] a = "underline" -> Truthy(style.underline)
      [] a = "style_id" -> Truthy(style.style_id)
      [] a = "shading" -> Truthy(style.shading)

\* the assignment of the failing attribute raises out of _apply_run_style
StyleRaises(style, tagged_content, failing) ==
    failing \in Unguarded /\ Attempted(failing, style, tagged_content)

\* formatters.py:183-273 on a run just created, when every assignment of the
\* attribute failing raises: an assignment is made and holds when it is
\* reached, is not the failing one and no exception has left the method
apply_run_style_failing(run, style, tagged_content, failing) ==
    LET raised == StyleRaises(style, tagged_content, failing)
        Set(a) == /\ a # failing
                  /\ Attempted(a, style, tagged_content)
                  /\ ~(raised /\ After(a, failing))
    IN  [run EXCEPT
           !.name = IF Set("name") THEN style.name ELSE None,
           !.size = IF Set("size") THEN style.size ELSE None,
           !.color = IF Set("color") THEN style.color ELSE None,
           !.color_type = IF Set("color") THEN "RGB"
                          ELSE IF Set("auto_color") THEN "AUTO" ELSE None,
           !.highlight_color = IF Set("highlight_color")
                               THEN style.highlight_color ELSE None,
           !.bold = IF Set("bold")
                    THEN ApplyToggle(style.bold, <<"<","b",">">>, tagged_content)
                    ELSE None,
           !.italic = IF Set("italic")
                      THEN ApplyToggle(style.italic, <<"<","i",">">>, tagged_content)
                      ELSE None,
           !.underline = IF Set("underline") THEN style.underline ELSE None,
           !.style_id = IF Set("style_id") THEN style.style_id ELSE None,
           !.shading = IF Set("shading") THEN style.shading ELSE None]

\* formatters.py:146 and 156 for every match: its index, its content and its
\* text without tags
RECURSIVE Parsed(_, _)
Parsed(matches, k) ==
    IF k > Len(matches) THEN <<>>
    ELSE <<[run_idx |-> Int(matches[k][1]),
            run_content |-> matches[k][2],
            clean_text |-> parse_and_extract_text(matches[k][2])]>>
         \o Parsed(matches, k + 1)

\* formatters.py:145-168 over the parsed matches from index k on, when every
\* assignment of the attribute failing raises: the runs in the paragraph when
\* the loop is left, the last of them the run whose styling raised
RECURSIVE DecodeFailingFrom(_, _, _, _, _)
DecodeFailingFrom(spans, k, styles, links, failing) ==
    IF k > Len(spans) THEN <<>>
    ELSE IF spans[k].run_idx >= Len(styles) \/ spans[k].clean_text = <<>>
    THEN DecodeFailingFrom(spans, k + 1, styles, links, failing)
    ELSE <<apply_run_style_failing(
              NewRun(spans[k].clean_text, LinkOf(links, spans[k].run_idx)),
              styles[spans[k].run_idx + 1], spans[k].run_content, failing)>>
         \o (IF StyleRaises(styles[spans[k].run_idx + 1], spans[k].run_content, failing)
             THEN <<>>
             ELSE DecodeFailingFrom(spans, k + 1, styles, links, failing))

\* some pair the loop of formatters.py:145-168 rebuilds has a style whose
\* application raises
DecodeRaises(spans, styles, failing) ==
    \E k \in 1..Len(spans) :
        /\ spans[k].run_idx < Len(styles)
        /\ spans[k].clean_text # <<>>
        /\ StyleRaises(styles[spans[k].run_idx + 1], spans[k].run_content, failing)

DecodeInit ==
    /\ pc = "d_decode"
    /\ hist \in SeqUpTo(SpanKinds, MaxSpans)
    /\ translated = SpanText(hist)
    /\ run_styles \in StyleLists
    /\ hyperlinks = {<<1, "http://a">>}
    /\ para = <<Plain(X)>>
    /\ para0 = para
    /\ category = "general"
    /\ tagged_text = <<>>
    /\ protected_text = <<>> /\ tag_placeholders = <<>>
    /\ masked_text = <<>> /\ term_placeholders = <<>>
    /\ translated_masked = <<>>
    /\ ret = "none" /\ engine = "none"
    /\ NoDocument

DecodeFrame ==
    UNCHANGED <<category, para0, tagged_text, run_styles, hyperlinks,
                protected_text, tag_placeholders, masked_text, term_placeholders,
                translated_masked, translated, engine, hist, doc, pos, counts,
                output, glossary>>

\* formatters.py:128-168, every assignment working
Decode ==
    /\ pc = "d_decode"
    /\ para' = tags_to_paragraph(translated, run_styles, hyperlinks)
    /\ ret' = "None"
    /\ pc' = "d_done"
    /\ DecodeFrame

\* formatters.py:128-168, the assignments of one attribute raising
DecodeWithFailure ==
    /\ pc = "d_decode"
    /\ \E spans \in {Parsed(FindRuns(translated, 1), 1)} :
           \E n \in 1..Len(StyleAttributes) :
             /\ para' = DecodeFailingFrom(spans, 1, run_styles, hyperlinks,
                                          StyleAttributes[n])
             /\ IF DecodeRaises(spans, run_styles, StyleAttributes[n])
                THEN ret' = "raise" /\ pc' = "d_raised"
                ELSE ret' = "None" /\ pc' = "d_degraded"
    /\ DecodeFrame

DecodeNext == Decode \/ DecodeWithFailure

SpecDecode == DecodeInit /\ [][DecodeNext]_vars

(***************************************************************************)
(* SpecStore: the table glossary of one database file under                *)
(* DatabaseManager (database.py): every construction of a manager runs     *)
(* _setup_tables, which seeds the table; add_term and delete_term edit it. *)
(* glossary holds the rows in rowid order, hist the last edit made to each *)
(* (source, category) through add_term or delete_term, pos the number of   *)
(* operations so far.                                                      *)
(***************************************************************************)
MaxStoreOps == 3

StoreRow(src, trg, type, cat) ==
    [term_source |-> src, term_target |-> trg, type |-> type, category |-> cat]

\* database.py:116-120: the calls of add_term _add_default_terms makes, in order
SeedRows ==
    [k \in 1..Len(GlossaryRows("Technology")) |->
        StoreRow(GlossaryRows("Technology")[k].term_source,
                 GlossaryRows("Technology")[k].term_target, "protected", "Technology")]
    \o
    [k \in 1..Len(GlossaryRows("general")) |->
        StoreRow(GlossaryRows("general")[k].term_source,
                 GlossaryRows("general")[k].term_target, "forced", "general")]

SameKey(r, src, cat) == r.term_source = src /\ r.category = cat

\* database.py:171-173: DELETE FROM glossary WHERE term_source = ? AND category = ?
DeleteRows(table, src, cat) == SelectSeq(table, LAMBDA r : ~SameKey(r, src, cat))

\* database.py:125-128 on the table with its CHECK on type (database.py:35) and
\* its unique index on (term_source, category) (database.py:43-46): a row of
\* another type is not written (the exception is caught, database.py:131-133),
\* any other row replaces the row of its key and takes a new rowid
InsertOrReplace(table, row) ==
    IF row.type \notin {"protected", "forced"} THEN table
    ELSE Append(DeleteRows(table, row.term_source, row.category), row)

\* database.py:116-120 on the table, from the k-th seed on
RECURSIVE AddDefaultTerms(_, _)
AddDefaultTerms(table, k) ==
    IF k > Len(SeedRows) THEN table
    ELSE AddDefaultTerms(InsertOrReplace(table, SeedRows[k]), k + 1)

\* what the callers of add_term and delete_term pass
StoreSources == {Orta, ERP, X}
StoreTargets == {Medium, X}
StoreTypes == {"protected", "forced", "other"}
StoreCategories == {"general", "Technology"}

Edit(op, row) == [op |-> op, row |-> row]

\* the edits on record after one more edit of the key of row
Edited(op, row) ==
    {e \in hist : ~SameKey(e.row, row.term_source, row.category)} \cup {Edit(op, row)}

StoreInit ==
    /\ pc = "s_new"
    /\ glossary = <<>>
    /\ hist = {}
    /\ pos = 0
    /\ doc = [paragraphs |-> <<>>, cells |-> <<>>]
    /\ counts = <<>>
    /\ output = "none"
    /\ category = "general"
    /\ para = NoPara /\ para0 = NoPara
    /\ tagged_text = <<>> /\ run_styles = <<>> /\ hyperlinks = {}
    /\ protected_text = <<>> /\ tag_placeholders = <<>>
    /\ masked_text = <<>> /\ term_placeholders = <<>>
    /\ translated_masked = <<>> /\ translated = <<>>
    /\ ret = "none" /\ engine = "none"

StoreFrame ==
    UNCHANGED <<category, para, para0, tagged_text, run_styles, hyperlinks,
                protected_text, tag_placeholders, masked_text, term_placeholders,
                translated_masked, translated, engine, doc, counts, output>>

\* database.py:11-16, 28-51: DatabaseManager(db_path) on the file
Initialize ==
    /\ pos < MaxStoreOps
    /\ glossary' = AddDefaultTerms(glossary, 1)
    /\ pc' = "s_open"
    /\ pos' = pos + 1
    /\ ret' = "None"
    /\ UNCHANGED hist
    /\ StoreFrame

\* database.py:122-133
add_term ==
    /\ pc = "s_open"
    /\ pos < MaxStoreOps
    /\ \E src \in StoreSources, trg \in StoreTargets, type \in StoreTypes,
          cat \in StoreCategories :
         /\ glossary' = InsertOrReplace(glossary, StoreRow(src, trg, type, cat))
         /\ IF type \in {"protected", "forced"}
            THEN /\ hist' = Edited("add", StoreRow(src, trg, type, cat))
                 /\ ret' = "True"
            ELSE /\ hist' = hist
                 /\ ret' = "False"
    /\ pos' = pos + 1
    /\ UNCHANGED pc
    /\ StoreFrame

\* database.py:169-174
delete_term ==
    /\ pc = "s_open"
    /\ pos < MaxStoreOps
    /\ \E src \in StoreSources, cat \in StoreCategories :
         /\ glossary' = DeleteRows(glossary, src, cat)
         /\ hist' = Edited("delete", StoreRow(src, src, "forced", cat))
    /\ ret' = "None"
    /\ pos' = pos + 1
    /\ UNCHANGED pc
    /\ StoreFrame

StoreNext == Initialize \/ add_term \/ delete_term

SpecStore == StoreInit /\ [][StoreNext]_vars

(***************************************************************************)
(* C7  Idempotence of cleanup: applying fix_concatenation_errors to its    *)
(* own result changes nothing.                                             *)
(***************************************************************************)
C7_CleanupIdempotent ==
    pc = "c_done" => hist[3] = hist[2]

\* a text the correction table and the case-boundary rule both rewrote
C7_Witness ==
    /\ pc = "c_done"
    /\ hist[2] # hist[1]
    /\ hist[2] # SplitCamel(hist[1], 1)
    /\ hist[2] # ApplyCorrections(hist[1], 1)

(***************************************************************************)
(* Whole-word occurrences, counted on the text itself: an occurrence is    *)
(* whole when the characters next to it, if any, are not word characters.  *)
(***************************************************************************)
SameLetters(s, i, term) ==
    /\ i >= 1
    /\ i + Len(term) - 1 <= Len(s)
    /\ LowerStr(SubSeq(s, i, i + Len(term) - 1)) = LowerStr(term)

WholeWordOccAt(s, i, term) ==
    /\ SameLetters(s, i, term)
    /\ (i = 1 \/ ~IsWord(s[i - 1]))
    /\ (i + Len(term) - 1 = Len(s) \/ ~IsWord(s[i + Len(term)]))

WholeWordOccs(s, term) == {i \in 1..Len(s) : WholeWordOccAt(s, i, term)}
WholeWordCount(s, term) == Cardinality(WholeWordOccs(s, term))

CountSub(s, p) == Cardinality({i \in 1..Len(s) : MatchAt(s, i, p)})

RowSet(cat) == {GlossaryRows(cat)[n] : n \in 1..Len(GlossaryRows(cat))}
ForcedRows(cat) == {r \in RowSet(cat) : r.type = "forced"}
ProtectedRows(cat) == {r \in RowSet(cat) : r.type = "protected"}
RowValue(r) == IF r.type = "forced" THEN r.term_target ELSE r.term_source

\* the placeholder entries of row r in the map (the values of a category's rows
\* are pairwise different)
EntriesOf(r) ==
    {n \in 1..Len(term_placeholders) : term_placeholders[n][2] = RowValue(r)}
HasKey(r) == EntriesOf(r) # {}
KeyCount(r) ==
    IF HasKey(r)
    THEN CountSub(masked_text, term_placeholders[CHOOSE n \in EntriesOf(r) : TRUE][1])
    ELSE 0

\* masked_text with every key replaced by the source of the row it stands for
RECURSIVE UnmaskBySource(_, _)
UnmaskBySource(text, n) ==
    IF n > Len(term_placeholders) THEN text
    ELSE LET r == CHOOSE x \in RowSet(category) :
                      RowValue(x) = term_placeholders[n][2]
         IN  UnmaskBySource(Replace(text, term_placeholders[n][1], r.term_source),
                            n + 1)

\* protect_text has returned
Masked == pc = "g_translate"

Nested(short, long) ==
    /\ Len(short.term_source) < Len(long.term_source)
    /\ WholeWordCount(long.term_source, short.term_source) >= 1

LongerFirst(short, long) ==
    /\ KeyCount(long) = WholeWordCount(protected_text, long.term_source)
    /\ KeyCount(short) =
          WholeWordCount(protected_text, short.term_source)
          - WholeWordCount(protected_text, long.term_source)
            * WholeWordCount(long.term_source, short.term_source)

C6_LongestFirstAnyKind ==
    Masked =>
      \A short \in RowSet(category), long \in RowSet(category) :
          Nested(short, long) => LongerFirst(short, long)

\* C6 as amended: the same, for two terms of one kind or a longer forced term
\* over a shorter protected one
C6_LongestFirstWithinOrder ==
    Masked =>
      \A short \in RowSet(category), long \in RowSet(category) :
          (/\ Nested(short, long)
           /\ (short.type = long.type \/ long.type = "forced"))
          => LongerFirst(short, long)

\* "ERP Sistemi ERP" with protected ERP and forced ERP Sistemi
C6_Witness ==
    /\ Masked
    /\ category = "erp"
    /\ protected_text = ErpSistemi \o <<" ">> \o ERP
    /\ masked_text = ForcedKey(0) \o <<" ">> \o ProtectedKey(1)

(***************************************************************************)
(* C8  Forced terms.  As claimed: when the service returns every glossary  *)
(* placeholder intact, every whole-word occurrence of a forced source in   *)
(* the input comes back as the term's target.                              *)
(***************************************************************************)
ValuesOf(placeholders) == [n \in 1..Len(placeholders) |-> placeholders[n][2]]

\* the restored text is the service's reply with each key slot holding the
\* value of its key
SlotwiseRestored ==
    translated = RewriteKeys(translated_masked, 1, KeysOf(term_placeholders),
                             ValuesOf(term_placeholders))

C8_EveryForcedOccurrence ==
    (pc = "g_done" /\ KeysIntact(engine)) =>
      /\ SlotwiseRestored
      /\ \A r \in ForcedRows(category) :
            CountSub(translated, r.term_target)
              >= WholeWordCount(protected_text, r.term_source)

\* the occurrences of r that lie in no occurrence of a longer forced term
FreeOccs(r) ==
    {i \in WholeWordOccs(protected_text, r.term_source) :
        \A l \in ForcedRows(category) :
            Len(l.term_source) > Len(r.term_source) =>
              \A j \in WholeWordOccs(protected_text, l.term_source) :
                  \/ i + Len(r.term_source) <= j
                  \/ j + Len(l.term_source) <= i}

\* C8 as amended: every whole-word occurrence of a forced source that lies in
\* no occurrence of a longer forced term comes back as the term's target
C8_ForcedOccurrence ==
    (pc = "g_done" /\ KeysIntact(engine)) =>
      /\ SlotwiseRestored
      /\ \A r \in ForcedRows(category) :
            CountSub(translated, r.term_target) >= Cardinality(FreeOccs(r))

\* "orta m" answered "[_F0_] M" and restored to "Medium M"
C8_Witness ==
    /\ pc = "g_done"
    /\ engine = "upper_rest"
    /\ category = "general"
    /\ protected_text = LowerStr(Orta) \o <<" ", "m">>
    /\ translated = Medium \o <<" ", "M">>

(***************************************************************************)
(* C9  Protected terms.  As claimed: with the service returning its input  *)
(* and only protected terms matched, the restored text is the original     *)
(* text character for character.                                           *)
(***************************************************************************)
OnlyProtectedMatched ==
    /\ Len(term_placeholders) >= 1
    /\ \A n \in 1..Len(term_placeholders) : term_placeholders[n][1][3] = "P"

C9_VerbatimAnyCase ==
    (pc = "g_done" /\ engine = "identity" /\ OnlyProtectedMatched) =>
      translated = protected_text

\* every whole-word occurrence of a protected term is written as in the glossary
GlossarySpelling ==
    \A r \in ProtectedRows(category) :
        \A i \in WholeWordOccs(protected_text, r.term_source) :
            MatchAt(protected_text, i, r.term_source)

\* C9 as amended: the restored text is the original text with every masked
\* occurrence in the glossary's spelling of the term, so it equals the
\* original character for character when the document spells the terms so
C9_VerbatimGlossarySpelling ==
    (pc = "g_done" /\ engine = "identity" /\ OnlyProtectedMatched) =>
      /\ Len(translated) = Len(protected_text)
      /\ \A i \in 1..Len(translated) :
            \/ translated[i] = protected_text[i]
            \/ \E r \in ProtectedRows(category) :
                 \E j \in WholeWordOccs(protected_text, r.term_source) :
                    /\ j <= i /\ i < j + Len(r.term_source)
                    /\ MatchAt(translated, j, r.term_source)
      /\ \A r \in ProtectedRows(category) :
            HasKey(r) =>
              \A j \in WholeWordOccs(protected_text, r.term_source) :
                  MatchAt(translated, j, r.term_source)
      /\ GlossarySpelling => translated = protected_text

\* "erp Word" comes back "ERP Word"
C9_Witness ==
    /\ pc = "g_done"
    /\ engine = "identity"
    /\ category = "Technology"
    /\ protected_text = LowerStr(ERP) \o <<" ">> \o Word
    /\ translated = ERP \o <<" ">> \o Word

(***************************************************************************)
(* C10  Corrupted-key tolerance: whether the service returned a key as it  *)
(* was or with one space after "[", before "]" or both, restore_text puts  *)
(* the key's value in its place and no variant of a key is left.           *)
(***************************************************************************)
KeyVariants(key) == {key, SpaceOpen(key), SpaceClose(key), SpaceBoth(key)}

C10_RelaxedKeysRestored ==
    (pc = "g_done" /\ engine \in {"identity", "space_open", "space_close", "space_both"})
    =>
      /\ translated = RewriteKeys(masked_text, 1, KeysOf(term_placeholders),
                                  ValuesOf(term_placeholders))
      /\ \A n \in 1..Len(term_placeholders) :
            \A v \in KeyVariants(term_placeholders[n][1]) : ~Contains(translated, v)

(***************************************************************************)
(* Claims about _translate_paragraph (Spec) and the round trip.            *)
(***************************************************************************)
\* the text recorded in hist under step name, <<>> if the step has not run
HistText(name) ==
    IF \E k \in 1..Len(hist) : hist[k].step = name
    THEN hist[CHOOSE k \in 1..Len(hist) : hist[k].step = name].text
    ELSE <<>>

Ran(name) == \E k \in 1..Len(hist) : hist[k].step = name

\* C1: once the service has answered the empty string or white space only,
\* the call has returned False, the runs of the paragraph are the runs it had
\* before the call, and tags_to_paragraph has not run.
C1_EmptyReplyAbandons ==
    (Ran("translate") /\ Strip(translated_masked) = <<>>) =>
        /\ pc = "empty_translation"
        /\ ret = "False"
        /\ para = para0
        /\ ~Ran("decode")

C1_Witness ==
    /\ Ran("translate") /\ translated_masked = <<"\n", "\t">>
    /\ pc = "empty_translation"
    /\ Len(para) = 2 /\ hyperlinks # {}

\* C2: encoding any sequence of runs and decoding the result gives back the
\* same runs: number, order, text, every style field and the link target.
C2_RoundTripIdentity == pc = "rt_done" => para = para0

\* C3: when the service returns the masked text with the structural-tag
\* placeholders moved among their slots, tag restoration puts at every slot the
\* tag of the placeholder found there, and no placeholder is left.
C3_TagsFollowPlaceholders ==
    (pc = "restore_ws" /\ engine = "permute") =>
        /\ translated = RewriteKeys(HistText("restore_glossary"), 1,
                                    KeysOf(tag_placeholders),
                                    [n \in 1..Len(tag_placeholders) |->
                                        tag_placeholders[n][2]])
        /\ ~Contains(translated, <<"[","_","T","G","_">>)

C3_Witness ==
    /\ pc = "restore_ws" /\ engine = "permute"
    /\ Len(tag_placeholders) >= 6
    /\ translated_masked # masked_text
    /\ term_placeholders # <<>>

\* C4: with a service that returns its input and no glossary match, the text
\* after the three restore layers is the tagged text the three protect layers
\* were given.
C4_LayersRoundTrip ==
    (pc = "cleanup" /\ engine = "identity" /\ Len(term_placeholders) = 0) =>
        translated = tagged_text


\* the steps of one call in the order of their statements (translator.py:109-176)
LayerOrder ==
    << "encode", "protect_ws", "protect_tags", "protect_glossary", "translate",
       "restore_glossary", "restore_tags", "restore_ws", "cleanup", "decode" >>

StepNames == [k \in 1..Len(hist) |-> hist[k].step]

\* C11: the steps a call has taken are always the first steps of the order
\* whitespace, tags, glossary, translate, glossary restore, tag restore,
\* whitespace restore, cleanup, document write: none is skipped, repeated or
\* taken out of turn.
C11_LayerOrder ==
    /\ Len(StepNames) <= Len(LayerOrder)
    /\ StepNames = SubSeq(LayerOrder, 1, Len(StepNames))

C11_Witness ==
    /\ pc = "applied"
    /\ StepNames = LayerOrder
    /\ Len(term_placeholders) > 0 /\ Len(tag_placeholders) > 0
    /\ Contains(HistText("protect_ws"), <<"[","_","W","S","_">>)

\* the indices at which a whitespace token "[_WS_n_]" starts in text
WsTokenStarts(text) == {j \in 1..Len(text) : WsKeyEndAt(text, j) > 0}

\* the number n written in the whitespace token that starts at j
WsTokenNumber(text, j) == Int(SubSeq(text, j + 5, WsKeyEndAt(text, j) - 3))

\* text with every " [_WS_n_] " replaced by n spaces, for n from k up to max
RECURSIVE ExpandWsTokens(_, _, _)
ExpandWsTokens(text, k, max) ==
    IF k > max THEN text
    ELSE ExpandWsTokens(Replace(text, WsToken(k), Spaces(k)), k + 1, max)

\* the largest number written in a whitespace token of text, 0 if none
LargestWsNumber(text) ==
    LET N == {WsTokenNumber(text, j) : j \in WsTokenStarts(text)}
    IN  IF N = {} THEN 0 ELSE CHOOSE n \in N : \A m \in N : m <= n

AllKeys == KeysOf(tag_placeholders) \o KeysOf(term_placeholders)

KeysDistinct == \A m, n \in 1..Len(AllKeys) : m # n => AllKeys[m] # AllKeys[n]

\* the tag keys are [_TG_0_], [_TG_1_], ... in the order the tags were found,
\* and putting each tag back for its key gives the text the layer was given
TagKeysIndexed ==
    /\ \A n \in 1..Len(tag_placeholders) : tag_placeholders[n][1] = TagKey(n - 1)
    /\ RewriteKeys(HistText("protect_tags"), 1, KeysOf(tag_placeholders),
                   [n \in 1..Len(tag_placeholders) |-> tag_placeholders[n][2]])
          = HistText("protect_ws")

IsForcedEntry(n) == term_placeholders[n][1] = ForcedKey(n - 1)
IsProtectedEntry(n) == term_placeholders[n][1] = ProtectedKey(n - 1)

\* the glossary keys share one counter: the n-th entry is [_F{n-1}_] or
\* [_P{n-1}_], every forced entry before every protected one, each standing for
\* one row of the category
GlossaryKeysOneCounter ==
    /\ \A n \in 1..Len(term_placeholders) :
          /\ IsForcedEntry(n) \/ IsProtectedEntry(n)
          /\ \E r \in RowSet(category) :
                /\ r.type = (IF IsForcedEntry(n) THEN "forced" ELSE "protected")
                /\ term_placeholders[n][2] = RowValue(r)
          /\ Contains(masked_text, term_placeholders[n][1])
    /\ \A m, n \in 1..Len(term_placeholders) :
          (m < n /\ IsForcedEntry(n)) => IsForcedEntry(m)

\* each layer numbers its own keys from 0
ForcedFromZero ==
    \A n \in 1..Len(term_placeholders) :
        IsForcedEntry(n) \/
        term_placeholders[n][1] =
            ProtectedKey(Cardinality({m \in 1..(n - 1) : ~IsForcedEntry(m)}))

WsFromZero ==
    LET text == HistText("protect_ws")
    IN  \A j \in WsTokenStarts(text) :
            WsTokenNumber(text, j) =
                Cardinality({m \in WsTokenStarts(text) : m < j})

\* a whitespace token carries the length of the run it stands for
WsTokensCarryLength ==
    LET text == HistText("protect_ws")
    IN  /\ \A j \in WsTokenStarts(text) : WsTokenNumber(text, j) >= 2
        /\ ExpandWsTokens(text, 2, LargestWsNumber(text)) = tagged_text

\* the three protect layers have run and the service has not been called yet
ProtectionDone == pc = "translate"

\* C12 as stated: keys pairwise distinct, each standing for what it replaced,
\* and in each of the four layers numbered in increasing order from 0.
C12_KeysFromZeroPerLayer ==
    ProtectionDone =>
        /\ KeysDistinct
        /\ TagKeysIndexed
        /\ GlossaryKeysOneCounter
        /\ ForcedFromZero
        /\ WsFromZero

\* C12: the keys of the tag map and of the glossary map are pairwise distinct
\* and each stands for what it replaced; tag keys are numbered from 0 in the
\* order found; glossary keys are numbered from 0 by one counter that the
\* forced and the protected terms share, forced first; a whitespace token is
\* not numbered but carries the length of the run of spaces it stands for.
C12_KeysDistinctAndCounted ==
    ProtectionDone =>
        /\ KeysDistinct
        /\ TagKeysIndexed
        /\ GlossaryKeysOneCounter
        /\ WsTokensCarryLength

C12_Witness ==
    /\ pc = "translate"
    /\ \E n \in 2..Len(term_placeholders) : IsProtectedEntry(n) /\ IsForcedEntry(1)
    /\ Len(tag_placeholders) >= 4
    /\ Cardinality(WsTokenStarts(HistText("protect_ws"))) >= 1

(***************************************************************************)
(* C13  Document-level isolation: a failure while one paragraph or cell is *)
(* processed is not the end of translate; the remaining paragraphs and     *)
(* cells are processed and an output stream is returned.                   *)
(***************************************************************************)
\* the paragraphs and cells no pass has reached when translate is left
Unreached ==
    IF pc = "doc_raised" /\ Len(hist) = 1
    THEN Len(doc.paragraphs) - pos + Len(doc.cells)
    ELSE 0

\* C13: translate is never left by an error raised under one paragraph or
\* cell: every paragraph and cell is reached and the stream is returned.
C13_FailureIsolated == output # "raised" /\ Unreached = 0


(***************************************************************************)
(* C14  Engine boundary: translate of either engine never raises; the      *)
(* GET-based engine gives a chunk back as it was on any status but 200 and *)
(* on any exception; the POST-based engine then gives what the GET-based   *)
(* engine gives for the same text.                                         *)
(***************************************************************************)
\* what each request to the GET-based service met, in order
GoogleOutcomesMet == [k \in 1..Len(GoogleEntries) |-> GoogleEntries[k].outcome]

\* the POST-based engine was asked and its request did not end in a 200
DeepLFellBack ==
    /\ engine = "deepl"
    /\ Len(hist) > 0
    /\ hist[1].service = "deepl"
    /\ hist[1].outcome # "200"

\* C14: no call of translate ends in an exception; a request of the GET-based
\* engine that meets a 429, a 400, another status but 200 or an exception gives
\* its chunk back verbatim; when the request of the POST-based engine fails,
\* the call returns what the GET-based engine returns for the same text.
C14_EngineBoundary ==
    /\ pc # "e_raised"
    /\ \A k \in 1..Len(GoogleEntries) :
          GoogleEntries[k].outcome # "200"
             => GoogleEntries[k].result = GoogleEntries[k].text
    /\ (pc = "e_returned" /\ DeepLFellBack)
          => translated_masked = google_translate(masked_text, GoogleOutcomesMet)

C14_Witness ==
    /\ pc = "e_returned"
    /\ DeepLFellBack
    /\ hist[1].outcome = "exception"
    /\ Len(GoogleEntries) >= 3
    /\ GoogleOutcomesMet[1] = "429"
    /\ GoogleOutcomesMet[2] = "exception"
    /\ GoogleOutcomesMet[3] = "200"
    /\ translated_masked # masked_text

(***************************************************************************)
(* C15  Chunk ordering of the GET-based engine for a text longer than the  *)
(* character budget.                                                       *)
(***************************************************************************)
\* the chunks sent so far, in the order of sending
ChunksSent == [k \in 1..Len(GoogleEntries) |-> GoogleEntries[k].text]

\* what the k-th request contributes: the translation of its chunk, or the
\* chunk itself when the request failed
Contribution(k) ==
    IF GoogleEntries[k].outcome = "200" THEN Translation(GoogleEntries[k].text)
    ELSE GoogleEntries[k].text

\* the GET-based engine is translating a text longer than the budget
LongText ==
    /\ Len(masked_text) > MAX_CHUNK_SIZE
    /\ engine = "google" \/ DeepLFellBack

\* C15: for a text longer than the budget, the chunks sent are consecutive
\* pieces of the text of at most the budget each, sent one request per chunk
\* in order; when the call returns they make up the whole text, and the value
\* returned is the per-chunk results joined in the same order, a failed chunk
\* standing as its own original text at its own place.
C15_ChunksInOrder ==
    LongText =>
       /\ \A k \in 1..Len(ChunksSent) :
             Len(ChunksSent[k]) >= 1 /\ Len(ChunksSent[k]) <= MAX_CHUNK_SIZE
       /\ Concat(ChunksSent) = SubSeq(masked_text, 1, Len(Concat(ChunksSent)))
       /\ pc = "e_returned" =>
             /\ Concat(ChunksSent) = masked_text
             /\ Len(ChunksSent) = NumChunks(masked_text)
             /\ translated_masked =
                   Concat([k \in 1..Len(GoogleEntries) |-> Contribution(k)])

C15_Witness ==
    /\ pc = "e_returned"
    /\ LongText
    /\ Len(ChunksSent) = 3
    /\ Len(ChunksSent[3]) = 1
    /\ GoogleOutcomesMet[1] = "200"
    /\ GoogleOutcomesMet[2] = "429"
    /\ GoogleOutcomesMet[3] = "200"

(***************************************************************************)
(* C16  Safety-net idempotence: after the three passes of translate, one   *)
(* more _final_cleanup_pass changes nothing and counts nothing.            *)
(***************************************************************************)
\* the document as the pass now running, or last run, found it
DocAtPassStart == hist[Len(hist)]

SkipOutcomes ==
    {"skip_empty", "skip_no_markers", "encode_failed", "empty_translation",
     "empty_final", "unchanged"}

TerminalOutcomes == SkipOutcomes \cup {"applied"}

KeptSpans == SelectSeq(hist, LAMBDA s : s.idx < Len(run_styles))

\* the run a pair stands for: its text, styled by the style at its own index
RunOfSpan(s) ==
    apply_run_style(NewRun(parse_and_extract_text(s.content), LinkOf(hyperlinks, s.idx)),
                    run_styles[s.idx + 1], s.content)

\* C18: after tags_to_paragraph the paragraph holds one run for every pair
\* whose index is below the number of captured styles, in the order of the
\* pairs in the text whatever their indices, each with the style captured at
\* its own index; a pair with an index out of range leaves no run and does
\* not stop the pairs after it.
C18_SpansInTextOrder ==
    pc = "d_done" =>
        /\ Len(para) = Len(KeptSpans)
        /\ \A j \in 1..Len(para) : para[j] = RunOfSpan(KeptSpans[j])

\* three pairs with indices 2, 1, 0 and two captured styles: the first pair
\* is skipped, the other two are rebuilt against the order of their indices
C18_Witness ==
    /\ pc = "d_done"
    /\ Len(hist) = 3 /\ Len(run_styles) = 2
    /\ hist[1].idx = 2 /\ hist[2].idx = 1 /\ hist[3].idx = 0
    /\ Len(para) = 2
    /\ para[1].name = run_styles[2].name /\ para[1].name # run_styles[1].name

(***************************************************************************)
(* C19  Toggle precedence on decode                                        *)
(***************************************************************************)
\* the toggle a rebuilt run is to carry: true under the inline tag, the
\* captured flag, whatever it is, without it
ToggleWanted(flag, tag, tagged_content) ==
    IF Contains(tagged_content, tag) THEN "True" ELSE flag

\* C19: every rebuilt run is bold (italic) when the inline tag stands in its
\* span content, and otherwise carries the bold (italic) flag of the captured
\* style, a captured False included.
C19_TogglePrecedence ==
    pc = "d_done" =>
        /\ Len(para) = Len(KeptSpans)
        /\ \A j \in 1..Len(para) :
              LET s == KeptSpans[j]
              IN  /\ para[j].bold =
                       ToggleWanted(run_styles[s.idx + 1].bold, <<"<","b",">">>, s.content)
                  /\ para[j].italic =
                       ToggleWanted(run_styles[s.idx + 1].italic, <<"<","i",">">>, s.content)

(***************************************************************************)
(* C20  Style-application failure policy                                   *)
(***************************************************************************)
\* the fields of a run one failing assignment leaves unset
AttributeFields ==
    { {"name"}, {"size"}, {"color", "color_type"}, {"color_type"},
      {"highlight_color"}, {"bold"}, {"italic"}, {"underline"}, {"style_id"},
      {"shading"} }

\* the fields in which the run r differs from the run e
Differing(r, e) == {f \in DOMAIN e : r[f] # e[f]}

\* C20: when the assignments of one style attribute fail, tags_to_paragraph
\* still returns, every pair in range still has its run, and each run differs
\* from the run it would have been only in the fields of one attribute, which
\* are unset.
C20_FailureLeavesOneAttributeUnset ==
    pc \in {"d_degraded", "d_raised"} =>
        /\ ret # "raise"
        /\ Len(para) = Len(KeptSpans)
        /\ \A j \in 1..Len(para) :
              /\ \E fields \in AttributeFields :
                    Differing(para[j], RunOfSpan(KeptSpans[j])) \subseteq fields
              /\ \A f \in Differing(para[j], RunOfSpan(KeptSpans[j])) : para[j][f] = None

(***************************************************************************)
(* C21  TaggedFragment invariant                                           *)
(***************************************************************************)
\* the runs paragraph_to_tagged_text encodes: those with text (formatters.py:54)
EncodedRuns == SelectSeq(para, LAMBDA r : r.text # <<>>)

\* the index run i is opened (closed) at in the tagged text, 0 if nowhere
OpenedAt(i) == FindFrom(tagged_text, 1, OpenMarker(i))
ClosedAt(i) == FindFrom(tagged_text, 1, CloseMarker(i))

\* C21: the tagged text of a paragraph holds, for every index below the
\* number N of encoded runs, exactly one opening and one closing marker, the
\* opening first, the span of a lower index closed before the span of a
\* higher one opens, and the style list has N entries, entry i the style of
\* the i-th encoded run.
C21_TaggedFragment ==
    pc = "rt_decode" =>
        /\ Len(run_styles) = Len(EncodedRuns)
        /\ \A i \in 0..(Len(EncodedRuns) - 1) :
              /\ CountSub(tagged_text, OpenMarker(i)) = 1
              /\ CountSub(tagged_text, CloseMarker(i)) = 1
              /\ OpenedAt(i) < ClosedAt(i)
              /\ run_styles[i + 1] = StyleOf(EncodedRuns[i + 1])
              /\ \A j \in (i + 1)..(Len(EncodedRuns) - 1) : ClosedAt(i) < OpenedAt(j)

(***************************************************************************)
(* C22  Seed terms are ordinary data                                       *)
(***************************************************************************)
\* no two rows of the table have the same (source, category)
OneRowPerKey ==
    \A i, j \in 1..Len(glossary) :
        SameKey(glossary[i], glossary[j].term_source, glossary[j].category) => i = j

\* (source, category) is a key of the seed set
Seeded(row) ==
    \E k \in 1..Len(SeedRows) : SameKey(SeedRows[k], row.term_source, row.category)

\* the edit e shows in the table: the row it wrote is the row of its key, or
\* the key it deleted has no row
InEffect(e) ==
    IF e.op = "delete"
    THEN \A k \in 1..Len(glossary) :
            ~SameKey(glossary[k], e.row.term_source, e.row.category)
    ELSE \E k \in 1..Len(glossary) : glossary[k] = e.row

\* C22: the table never holds two rows of one (source, category), and the
\* last add_term or delete_term of a seeded (source, category) shows in the
\* table from then on, also after a manager is constructed on the file again.
C22_SeedsAreOrdinaryData ==
    /\ OneRowPerKey
    /\ \A e \in hist : Seeded(e.row) => InEffect(e)

(***************************************************************************)
(* C23  Key non-interference                                               *)
(***************************************************************************)
\* the whitespace tokens written by translator.py:122
WsKeys ==
    {WsToken(WsTokenNumber(HistText("protect_ws"), j)) :
        j \in WsTokenStarts(HistText("protect_ws"))}

\* every key the three layers made for this paragraph
GeneratedKeys == WsKeys \cup {AllKeys[n] : n \in 1..Len(AllKeys)}

\* C23: the keys the tag and glossary layers made for one paragraph are
\* pairwise different, and of all the keys the whitespace, tag and glossary
\* layers made none occurs inside a different one, neither as written nor in
\* the spaced form restore_text also replaces, so replacing one key in a text
\* leaves every other key whole.
C23_KeysDoNotInterfere ==
    ProtectionDone =>
        /\ KeysDistinct
        /\ \A k1, k2 \in GeneratedKeys :
              k1 # k2 =>
                  /\ ~Contains(k2, k1)
                  /\ ~Contains(k2, KeySpaced(k1))
                  /\ Replace(k2, k1, <<>>) = k2

\* a paragraph with more than ten tags: [_TG_1_] and [_TG_10_] are both keys
C23_Witness ==
    /\ ProtectionDone
    /\ TagKey(1) \in GeneratedKeys
    /\ TagKey(10) \in GeneratedKeys
    /\ Contains(masked_text, TagKey(1)) /\ Contains(masked_text, TagKey(10))

(***************************************************************************)
(* C24  Lost markers delete content                                        *)
(***************************************************************************)
\* the text handed to tags_to_paragraph holds the opening marker of run i and,
\* after it, its closing marker
OpenOf(i) == FindFrom(translated, 1, OpenMarker(i))
CloseOf(i) == FindFrom(translated, OpenOf(i), CloseMarker(i))
Matched(i) == OpenOf(i) > 0 /\ CloseOf(i) > 0

\* what stands between the markers of run i
ContentOf(i) == SubSeq(translated, OpenOf(i) + Len(OpenMarker(i)), CloseOf(i) - 1)

\* the indices of the encoded runs whose pair of markers is still there and
\* holds text, in order
Survivors ==
    SelectSeq([k \in 1..Len(run_styles) |-> k - 1],
              LAMBDA i : Matched(i) /\ parse_and_extract_text(ContentOf(i)) # <<>>)

\* the run rebuilt from the pair of markers of run i
RunOfPair(i) ==
    apply_run_style(NewRun(parse_and_extract_text(ContentOf(i)), LinkOf(hyperlinks, i)),
                    run_styles[i + 1], ContentOf(i))

\* the service lost or altered structural-tag keys and the call has written
MarkersLost == engine = "drop_tags" /\ pc = "applied"

\* C24: when the service has lost or altered marker keys, the rebuilt
\* paragraph holds a run for every encoded run whose pair of markers is still
\* in the text and for no other: what stood in a run that lost a marker is
\* gone; when no pair is left the paragraph has no run at all, although it had
\* text before, and the call still returns True.
C24_LostMarkersDeleteContent ==
    MarkersLost =>
        /\ Len(para) = Len(Survivors)
        /\ \A j \in 1..Len(para) : para[j] = RunOfPair(Survivors[j])
        /\ ret = "True"
        /\ (\A i \in 0..(Len(run_styles) - 1) : ~Matched(i)) =>
               para = <<>> /\ ParaText(para0) # <<>>

\* every marker of a paragraph of two runs is lost: no run is left, True is
\* returned
C24_Witness ==
    /\ MarkersLost
    /\ Len(para0) = 2 /\ Len(run_styles) = 2
    /\ \A i \in 0..1 : ~Matched(i)
    /\ para = <<>>
    /\ ret = "True"

(***************************************************************************)
(* C25  Failed translation still applies forced terms                      *)
(***************************************************************************)
\* the engine failed: what it returned is the masked text it was given
\* (google_engine.py:56-68)
TranslationFailed == Ran("translate") /\ engine = "identity"

\* a forced term was masked whose target is not the text it stood for
ForcedTermChanged ==
    \E n \in 1..Len(term_placeholders) :
        /\ IsForcedEntry(n)
        /\ \E r \in ForcedRows(category) :
              /\ r.term_target = term_placeholders[n][2]
              /\ LowerStr(r.term_source) # LowerStr(r.term_target)

\* fix_concatenation_errors changed the unwound text
CleanupChanged == HistText("cleanup") # HistText("restore_ws")

\* every forced target that was masked stands in the rebuilt paragraph
ForcedTargetsWritten ==
    \A n \in 1..Len(term_placeholders) :
        IsForcedEntry(n) => Contains(ParaText(para), term_placeholders[n][2])

\* C25: when the engine fails and returns the masked text as it is, the call
\* is not abandoned: the layers are unwound, and the paragraph is rewritten
\* with the forced targets in it and True returned exactly when a forced term
\* with a target other than its text was masked or cleanup changed the text;
\* otherwise the paragraph is left as it was and False returned.
C25_FailedTranslationAppliesForced ==
    (TranslationFailed /\ pc \in TerminalOutcomes) =>
        /\ Ran("restore_glossary") /\ Ran("restore_tags") /\ Ran("restore_ws")
        /\ Ran("cleanup")
        /\ IF ForcedTermChanged \/ CleanupChanged
           THEN pc = "applied" /\ ret = "True" /\ ForcedTargetsWritten
           ELSE pc = "unchanged" /\ ret = "False" /\ para = para0

====
